---- MODULE Spec2Model ----
(***************************************************************************)
(* Model of the builtins of glisp (interpreter/listutils.go,               *)
(* interpreter/arrayutils.go) and of the callback-driven file system       *)
(* extension (extensions/filesys.go).                                      *)
(*                                                                         *)
(* Spec: every builtin is a function of its argument list (eval also of    *)
(* the calling engine, the file system functions also of the files); the   *)
(* state machine calls one builtin per behaviour on inputs drawn from      *)
(* bounded sets and records the call and its outcome.  An outcome is a     *)
(* record [val, err, calls]: the returned Sexp, the returned error ("nil"  *)
(* for none; "panic" when the Go runtime aborts the call) and the log of   *)
(* the callback applications made, in order.  An Array or Data value       *)
(* carries the spare capacity of its Go slice.                             *)
(*                                                                         *)
(* SpecArrays: Array values are slice headers on shared backing stores,    *)
(* and a program keeps the results of a sequence of slice, rest, append,   *)
(* concat and aset! calls.                                                 *)
(*                                                                         *)
(* The file system functions change and read a tree of files; after one    *)
(* of them has returned the program may call another one on the tree the   *)
(* earlier calls left, up to MaxCalls calls.                               *)
(*                                                                         *)
(* The value universe holds Null, Int, Float (the bits of an IEEE-754      *)
(* double), Bool, Char, Str, Symbol, Pair, Array, Hash, Data and Function  *)
(* values.                                                                 *)
(* A Hash is the sequence of its entries in insertion order.               *)
(***************************************************************************)
EXTENDS Integers, Sequences, FiniteSets, TLC

VARIABLES op, args, res, pc, env, newenv, fsys, store, arrs, ncalls

vars == <<op, args, res, pc, env, newenv, fsys, store, arrs, ncalls>>

\* ---------------------------------------------------------------- bounds
MaxLen == 3
MaxData == 4
MaxChunk == 5
MaxCalls == 3
MaxArgs == 3
MaxSpare == 2
MaxCodecArgs == 2
MaxHalf == 5
MaxArrs == 3

\* ---------------------------------------------------------------- values
\* The Sexp variants.  An Array or Data value is a Go slice: `spare` holds
\* the contents of its backing store between its length and its capacity.
NullV == [t |-> "null"]
NilV == [t |-> "nil"]
\* in the backing store of an array: the array itself
SelfV == [t |-> "self"]
IntV(n) == [t |-> "int", n |-> n]
\* an Int beyond the checker's integers (of magnitude 2^31 or more), by its
\* sign and the bits of its magnitude (least significant first, no leading
\* zero)
IntW(neg, bits) == [t |-> "int", neg |-> neg, bits |-> bits]
IsWide(v) == "bits" \in DOMAIN v
BoolV(b) == [t |-> "bool", b |-> b]
StrV(s) == [t |-> "str", s |-> s]
FunV(f) == [t |-> "fun", name |-> f]
SymV(n) == [t |-> "symbol", number |-> n]
CharV(c) == [t |-> "char", c |-> c]
\* a Hash holds its entries <<key, value>> in insertion order
HashV(kv) == [t |-> "hash", kv |-> kv]
\* a user function of the program: it answers false until the size of the
\* entry or the position it is given reaches `from`, and from there on
\* true (kind "true") or an error (kind "error")
ClosureV(kind, from) == [t |-> "fun", name |-> "closure", kind |-> kind, from |-> from]
PairV(h, tl) == [t |-> "pair", head |-> h, tail |-> tl]
ArrC(a, sp) == [t |-> "array", a |-> a, spare |-> sp]
ArrV(a) == ArrC(a, <<>>)
DataC(d, sp) == [t |-> "data", d |-> d, spare |-> sp]
DataV(d) == DataC(d, <<>>)

Cons(a, b) == PairV(a, b)

\* errors
NoErr == "nil"
Panic == "panic"
WrongNargs == "wrong number of arguments"
WrongType == "wrong type"
NotAList == "not a list"

Ret(v, e) == [val |-> v, err |-> e, calls |-> <<>>]
RetC(v, e, c) == [val |-> v, err |-> e, calls |-> c]

RECURSIVE IsList(_)
IsList(expr) ==
    IF expr = NullV THEN TRUE
    ELSE IF expr.t = "pair" THEN IsList(expr.tail)
    ELSE FALSE

IsEmpty(expr) ==
    CASE expr.t = "null" -> TRUE
      [] expr.t = "str" -> Len(expr.s) = 0
      [] expr.t = "array" -> Len(expr.a) = 0
      [] expr.t = "data" -> Len(expr.d) = 0
      [] OTHER -> FALSE

\* ------------------------------------------------------- list <-> array
RECURSIVE ListToArrayLoop(_, _)
ListToArrayLoop(expr, arr) ==
    IF expr = NullV THEN arr
    ELSE ListToArrayLoop(expr.tail, Append(arr, expr.head))

ListToArray(expr) ==
    IF ~IsList(expr) THEN Ret(<<>>, NotAList)
    ELSE Ret(ListToArrayLoop(expr, <<>>), NoErr)

\* variant: the list is built from the last expression backwards
RECURSIVE MakeList_Reversed(_)
MakeList_Reversed(expressions) ==
    IF Len(expressions) = 0 THEN NullV
    ELSE Cons(expressions[Len(expressions)],
              MakeList_Reversed(SubSeq(expressions, 1, Len(expressions) - 1)))

RECURSIVE MakeList(_)
MakeList(expressions) ==
    IF Len(expressions) = 0 THEN NullV
    ELSE Cons(expressions[1], MakeList(Tail(expressions)))

\* ------------------------------------------------------ Go slice helpers
\* t[lo:hi] on a slice of contents a and spare capacity sp: Go checks
\* 0 <= lo <= hi <= cap(t), not len(t), and panics otherwise.
GoSliceOk(a, sp, lo, hi) == 0 <= lo /\ lo <= hi /\ hi <= Len(a) + Len(sp)
GoSliceElems(a, sp, lo, hi) == SubSeq(a \o sp, lo + 1, hi)
GoSliceSpare(a, sp, lo, hi) == SubSeq(a \o sp, hi + 1, Len(a) + Len(sp))

\* the capacity append allocates for `need` elements when the capacity
\* `cap` does not suffice: doubled, or what is needed if that is more
GrowCap(cap, need) == IF need > 2 * cap THEN need ELSE 2 * cap

\* append(t, xs...): written in place when the capacity suffices, otherwise
\* copied to a fresh backing store of the grown capacity, whose elements
\* beyond the length are nil.
GoAppend(a, sp, xs) ==
    IF Len(xs) <= Len(sp)
    THEN [a |-> a \o xs, spare |-> SubSeq(sp, Len(xs) + 1, Len(sp))]
    ELSE [a |-> a \o xs,
          spare |-> [j \in 1..(GrowCap(Len(a) + Len(sp), Len(a) + Len(xs))
                                - Len(a) - Len(xs)) |-> NilV]]

\* The spare slots `sp` of a backing store after the appends `steps` made
\* in turn to a slice on it that had `used` of them taken: an append that
\* fits is written in place, the first that does not moves the slice to a
\* store of its own and leaves this one as it is.
RECURSIVE WrittenSpare(_, _, _, _)
WrittenSpare(sp, used, steps, k) ==
    IF k > Len(steps) \/ Len(steps[k]) > Len(sp) - used THEN sp
    ELSE WrittenSpare([j \in 1..Len(sp) |->
                          IF j > used /\ j <= used + Len(steps[k])
                          THEN steps[k][j - used] ELSE sp[j]],
                      used + Len(steps[k]), steps, k + 1)

\* ------------------------------------------------------------ arithmetic
\* Go integer division truncates toward zero.
GoDiv(a, b) ==
    LET q == (IF a < 0 THEN -a ELSE a) \div (IF b < 0 THEN -b ELSE b)
    IN IF (a < 0) = (b < 0) THEN q ELSE -q

NumericDo(nop, a, b) ==
    IF a.t # "int" \/ b.t # "int" THEN Ret(NullV, WrongType)
    ELSE CASE nop = "Add" -> Ret(IntV(a.n + b.n), NoErr)
           [] nop = "Sub" -> Ret(IntV(a.n - b.n), NoErr)
           [] nop = "Mult" -> Ret(IntV(a.n * b.n), NoErr)
           [] nop = "Div" -> IF b.n = 0 THEN Ret(NullV, "division by zero")
                             ELSE Ret(IntV(GoDiv(a.n, b.n)), NoErr)

\* bitwise operators on non-negative integers, bit by bit
RECURSIVE BitOp(_, _, _)
BitOp(iop, x, y) ==
    IF x = 0 /\ y = 0 THEN 0
    ELSE LET bx == x % 2
             by == y % 2
             b == CASE iop = "BitAnd" -> IF bx = 1 /\ by = 1 THEN 1 ELSE 0
                    [] iop = "BitOr" -> IF bx = 1 \/ by = 1 THEN 1 ELSE 0
                    [] iop = "BitXor" -> IF bx # by THEN 1 ELSE 0
         IN b + 2 * BitOp(iop, x \div 2, y \div 2)

IntegerDo(iop, a, b) ==
    IF a.t # "int" \/ b.t # "int" THEN Ret(NullV, WrongType)
    ELSE Ret(IntV(BitOp(iop, a.n, b.n)), NoErr)

\* ------------------------------------------------- reducing builtins
RECURSIVE BitwiseLoop(_, _, _, _)
BitwiseLoop(iop, accum, xs, i) ==
    IF i > Len(xs) THEN Ret(accum, NoErr)
    ELSE LET r == IntegerDo(iop, accum, xs[i])
         IN IF r.err # NoErr THEN Ret(NullV, r.err)
            ELSE BitwiseLoop(iop, r.val, xs, i + 1)

BitwiseFunction(name, as) ==
    IF Len(as) # 2 THEN Ret(NullV, WrongNargs)
    ELSE LET iop == CASE name = "bit-and" -> "BitAnd"
                      [] name = "bit-or" -> "BitOr"
                      [] name = "bit-xor" -> "BitXor"
         IN BitwiseLoop(iop, as[1], as, 2)

RECURSIVE NumericLoop(_, _, _, _)
NumericLoop(nop, accum, xs, i) ==
    IF i > Len(xs) THEN Ret(accum, NoErr)
    ELSE LET r == NumericDo(nop, accum, xs[i])
         IN IF r.err # NoErr THEN Ret(NullV, r.err)
            ELSE NumericLoop(nop, r.val, xs, i + 1)

NumericFunction(name, as) ==
    IF Len(as) < 1 THEN Ret(NullV, WrongNargs)
    ELSE LET nop == CASE name = "+" -> "Add"
                      [] name = "-" -> "Sub"
                      [] name = "*" -> "Mult"
                      [] name = "/" -> "Div"
         IN NumericLoop(nop, as[1], as, 2)

\* ------------------------------------------------- list / array access
ConsFunction(as) ==
    IF Len(as) # 2 THEN Ret(NullV, WrongNargs)
    ELSE Ret(Cons(as[1], as[2]), NoErr)

FirstFunction(as) ==
    IF Len(as) # 1 THEN Ret(NullV, WrongNargs)
    ELSE CASE as[1].t = "pair" -> Ret(as[1].head, NoErr)
           [] as[1].t = "array" ->
                IF Len(as[1].a) = 0 THEN Ret(NullV, Panic)
                ELSE Ret(as[1].a[1], NoErr)
           [] OTHER -> Ret(NullV, WrongType)

LenFunction(as) ==
    IF Len(as) # 1 THEN Ret(NullV, WrongNargs)
    ELSE CASE as[1].t = "array" -> Ret(IntV(Len(as[1].a)), NoErr)
           [] as[1].t = "str" -> Ret(IntV(Len(as[1].s)), NoErr)
           [] as[1].t = "data" -> Ret(IntV(Len(as[1].d)), NoErr)
           [] as[1].t = "hash" -> Ret(IntV(Len(as[1].kv)), NoErr)
           [] OTHER -> Ret(IntV(0), "argument must be string or array")

\* -------------------------------------------------------------- hashes
\* the value stored under key, if any
HashGet(h, key) ==
    IF \E j \in 1..Len(h.kv) : h.kv[j][1] = key
    THEN [found |-> TRUE,
          val |-> h.kv[CHOOSE j \in 1..Len(h.kv) : h.kv[j][1] = key][2]]
    ELSE [found |-> FALSE, val |-> NullV]

\* the hash with key bound to val: replaced in place or added at the end
HashSet(h, key, val) ==
    IF HashGet(h, key).found
    THEN HashV([j \in 1..Len(h.kv) |->
                    IF h.kv[j][1] = key THEN <<key, val>> ELSE h.kv[j]])
    ELSE HashV(Append(h.kv, <<key, val>>))

\* the hash without key
HashDelete(h, key) ==
    HashV(SelectSeq(h.kv, LAMBDA e : e[1] # key))

\* the keys "path", "name", "size", "mode", "isdir"
KeyPath == StrV(<<112, 97, 116, 104>>)
KeyName == StrV(<<110, 97, 109, 101>>)
KeySize == StrV(<<115, 105, 122, 101>>)
KeyMode == StrV(<<109, 111, 100, 101>>)
KeyIsDir == StrV(<<105, 115, 100, 105, 114>>)

\* ------------------------------------------------------------- apply
CallbackFailed == "callback failed"

\* Apply of a user function
ApplyClosure(fun, as) ==
    LET key == IF as[1].t = "int" THEN as[1].n ELSE HashGet(as[1], KeySize).val.n
    IN IF fun.kind = "data"
       THEN Ret(DataV(IF key < fun.from THEN <<7>> ELSE <<>>), NoErr)
       ELSE IF key < fun.from THEN Ret(BoolV(FALSE), NoErr)
       ELSE IF fun.kind = "true" THEN Ret(BoolV(TRUE), NoErr)
       ELSE Ret(NullV, CallbackFailed)

\* Apply of a native function: the host callable is invoked directly with
\* the argument list and its result or error is returned.
Apply(fun, as) ==
    CASE fun.name = "cons" -> ConsFunction(as)
      [] fun.name = "first" -> FirstFunction(as)
      [] fun.name = "len" -> LenFunction(as)
      [] fun.name \in {"+", "-", "*", "/"} -> NumericFunction(fun.name, as)
      [] fun.name = "closure" -> ApplyClosure(fun, as)

\* ------------------------------------------------------------- foldl
RECURSIVE FoldlArrayLoop(_, _, _, _, _)
FoldlArrayLoop(fun, arr, i, acc, calls) ==
    IF i > Len(arr) THEN RetC(acc, NoErr, calls)
    ELSE LET cargs == <<arr[i], acc>>
             r == Apply(fun, cargs)
         IN \* acc, err = env.Apply(...): acc is assigned before err is tested
            IF r.err # NoErr THEN RetC(r.val, r.err, Append(calls, cargs))
            ELSE FoldlArrayLoop(fun, arr, i + 1, r.val, Append(calls, cargs))

FoldlArray(fun, arr, acc) == FoldlArrayLoop(fun, arr.a, 1, acc, <<>>)

RECURSIVE FoldlPairLoop(_, _, _, _)
FoldlPairLoop(fun, cur, acc, calls) ==
    IF cur.t = "pair"
    THEN LET cargs == <<cur.head, acc>>
             r == Apply(fun, cargs)
         IN IF r.err # NoErr THEN RetC(r.val, r.err, Append(calls, cargs))
            ELSE FoldlPairLoop(fun, cur.tail, r.val, Append(calls, cargs))
    ELSE IF cur = NullV THEN RetC(acc, NoErr, calls)
    ELSE LET cargs == <<cur, acc>>
             r == Apply(fun, cargs)
         IN RetC(r.val, r.err, Append(calls, cargs))

FoldlPair(fun, expr, acc) == FoldlPairLoop(fun, expr, acc, <<>>)

\* walk[lo:hi] of the Data buffer, as a Data value sharing its backing store
DataChunk(data, lo, hi) ==
    DataC(GoSliceElems(data.d, data.spare, lo, hi),
          GoSliceSpare(data.d, data.spare, lo, hi))

RECURSIVE FoldlDataLoop(_, _, _, _, _, _, _)
FoldlDataLoop(fun, data, sz, chunks, i, acc, calls) ==
    IF i < chunks
    THEN LET cargs == <<DataChunk(data, i * sz, i * sz + sz), acc>>
             r == Apply(fun, cargs)
         IN IF r.err # NoErr THEN RetC(r.val, r.err, Append(calls, cargs))
            ELSE FoldlDataLoop(fun, data, sz, chunks, i + 1, r.val,
                               Append(calls, cargs))
    ELSE IF Len(data.d) > chunks * sz
    THEN LET remain == Len(data.d) - chunks * sz
             cargs == <<DataChunk(data, chunks * sz, chunks * sz + remain), acc>>
             r == Apply(fun, cargs)
         IN RetC(r.val, r.err, Append(calls, cargs))
    ELSE RetC(acc, NoErr, calls)

\* variant: the short chunk after the last full one is not visited
FoldlData_NoRemainder(fun, data, acc, sz) ==
    LET chunks == Len(data.d) \div sz
    IN FoldlDataLoop(fun, DataC(SubSeq(data.d, 1, chunks * sz), <<>>), sz, chunks,
                     0, acc, <<>>)

FoldlData(fun, data, acc, sz) ==
    FoldlDataLoop(fun, data, sz, Len(data.d) \div sz, 0, acc, <<>>)

\* FoldlHash: one application per entry, on the entry as a (key . value)
\* pair and the accumulator
RECURSIVE FoldlHashLoop(_, _, _, _, _)
FoldlHashLoop(fun, kv, i, acc, calls) ==
    IF i > Len(kv) THEN RetC(acc, NoErr, calls)
    ELSE LET cargs == <<PairV(kv[i][1], kv[i][2]), acc>>
             r == Apply(fun, cargs)
         IN IF r.err # NoErr THEN RetC(r.val, r.err, Append(calls, cargs))
            ELSE FoldlHashLoop(fun, kv, i + 1, r.val, Append(calls, cargs))

FoldlHash(fun, hash, acc) == FoldlHashLoop(fun, hash.kv, 1, acc, <<>>)

FoldLFunction(as) ==
    IF Len(as) < 3 THEN Ret(NullV, WrongNargs)
    ELSE IF as[2].t # "fun" THEN Ret(NullV, "first argument must be function")
    ELSE CASE as[1].t = "array" -> FoldlArray(as[2], as[1], as[3])
           [] as[1].t = "pair" -> FoldlPair(as[2], as[1], as[3])
           [] as[1].t = "hash" -> FoldlHash(as[2], as[1], as[3])
           [] as[1].t = "data" ->
                LET chunkSz == IF Len(as) > 3 /\ as[4].t = "int" /\ as[4].n > 0
                               THEN as[4].n ELSE 1
                IN FoldlData(as[2], as[1], as[3], chunkSz)
           [] OTHER -> Ret(NullV, "second argument must be pair, array, list, hash, or data")

\* --------------------------------------------------------------- map
\* result := make([]Sexp, len(arr)): the slots not yet assigned hold nil
RECURSIVE MapArrayLoop(_, _, _, _, _)
MapArrayLoop(fun, arr, i, result, calls) ==
    IF i > Len(arr) THEN RetC(ArrV(result), NoErr, calls)
    ELSE LET cargs == <<arr[i]>>
             r == Apply(fun, cargs)
             result2 == [result EXCEPT ![i] = r.val]
         IN IF r.err = Panic THEN RetC(NullV, Panic, Append(calls, cargs))
            ELSE IF r.err # NoErr
            THEN RetC(ArrV(result2), r.err, Append(calls, cargs))
            ELSE MapArrayLoop(fun, arr, i + 1, result2, Append(calls, cargs))

\* variant: the loop starts at the second element
MapArray_SkipFirst(fun, arr) ==
    MapArrayLoop(fun, arr.a, 2, [i \in 1..Len(arr.a) |-> NilV], <<>>)

MapArray(fun, arr) ==
    MapArrayLoop(fun, arr.a, 1, [i \in 1..Len(arr.a) |-> NilV], <<>>)

RECURSIVE MapListRec(_, _, _)
MapListRec(fun, expr, calls) ==
    IF expr = NullV THEN RetC(NullV, NoErr, calls)
    ELSE IF expr.t # "pair" THEN RetC(NullV, NotAList, calls)
    ELSE LET cargs == <<expr.head>>
             r == Apply(fun, cargs)
         IN IF r.err # NoErr THEN RetC(NullV, r.err, Append(calls, cargs))
            ELSE LET rt == MapListRec(fun, expr.tail, Append(calls, cargs))
                 IN IF rt.err # NoErr THEN RetC(NullV, rt.err, rt.calls)
                    ELSE RetC(PairV(r.val, rt.val), NoErr, rt.calls)

MapList(fun, expr) == MapListRec(fun, expr, <<>>)

\* MapHash: a new hash with the same keys, each value replaced by the
\* application of fun to it
RECURSIVE MapHashLoop(_, _, _, _, _)
MapHashLoop(fun, kv, i, result, calls) ==
    IF i > Len(kv) THEN RetC(HashV(result), NoErr, calls)
    ELSE LET cargs == <<kv[i][2]>>
             r == Apply(fun, cargs)
         IN IF r.err # NoErr THEN RetC(NullV, r.err, Append(calls, cargs))
            ELSE MapHashLoop(fun, kv, i + 1, Append(result, <<kv[i][1], r.val>>),
                             Append(calls, cargs))

MapHash(fun, hash) == MapHashLoop(fun, hash.kv, 1, <<>>, <<>>)

MapFunction(as) ==
    IF Len(as) # 2 THEN Ret(NullV, WrongNargs)
    ELSE IF as[1].t # "fun" THEN Ret(NullV, "first argument must be function")
    ELSE CASE as[2].t = "array" -> MapArray(as[1], as[2])
           [] as[2].t = "pair" -> MapList(as[1], as[2])
           [] as[2].t = "hash" -> MapHash(as[1], as[2])
           [] OTHER -> Ret(NullV, "second argument must be array, list or hash")

\* ------------------------------------------------------- binary codec
\* int64 in little-endian two's complement, 8 bytes
RECURSIVE LEBytes(_, _)
LEBytes(n, k) ==
    IF k = 0 THEN <<>> ELSE <<n % 256>> \o LEBytes(n \div 256, k - 1)

\* variant: the same 8 bytes, most significant first
Int64LE_BigEndian(n) ==
    LET m == IF n >= 0 THEN LEBytes(n, 8)
             ELSE [j \in 1..8 |-> 255 - LEBytes(-n - 1, 8)[j]]
    IN [j \in 1..8 |-> m[9 - j]]

Int64LE(n) ==
    IF n >= 0 THEN LEBytes(n, 8)
    ELSE LET m == LEBytes(-n - 1, 8)
         IN [j \in 1..8 |-> 255 - m[j]]

Abs(n) == IF n < 0 THEN -n ELSE n

\* A number too wide for the checker's integers is the sequence of its
\* bits, least significant first, with no leading zero.
RECURSIVE NatBits(_)
NatBits(n) == IF n = 0 THEN <<>> ELSE <<n % 2>> \o NatBits(n \div 2)

RECURSIVE BitsNat(_, _)
BitsNat(b, k) == IF k > Len(b) THEN 0 ELSE b[k] + 2 * BitsNat(b, k + 1)

Trim(b) ==
    LET ones == {j \in 1..Len(b) : b[j] = 1}
    IN IF ones = {} THEN <<>>
       ELSE SubSeq(b, 1, CHOOSE j \in ones : \A i \in ones : i <= j)

\* b * 2^k, rounded down when k is negative
Shl(b, k) ==
    IF k >= 0 THEN (IF b = <<>> THEN <<>> ELSE [j \in 1..k |-> 0] \o b)
    ELSE SubSeq(b, 1 - k, Len(b))

\* arithmetic goes by limbs of LimbBits bits, least significant first
LimbBits == 15
Limb == 2 ^ LimbBits

BitsLimbs(b) ==
    LET n == (Len(b) + LimbBits - 1) \div LimbBits
    IN SubSeq([k \in 1..n |->
                BitsNat(SubSeq(b, LimbBits * (k - 1) + 1,
                               IF LimbBits * k < Len(b) THEN LimbBits * k
                               ELSE Len(b)), 1)], 1, n)

LimbsBits(l) ==
    Trim([j \in 1..(LimbBits * Len(l)) |->
            (l[((j - 1) \div LimbBits) + 1] \div (2 ^ ((j - 1) % LimbBits))) % 2])

\* The carry out of the limbs lo..hi of l * m, m up to 10000, for a carry
\* c below m into them: base, and one more if c >= step.  The limbs are
\* halved rather than walked, which keeps the evaluation shallow.
RECURSIVE CarryOut(_, _, _, _)
CarryOut(l, lo, hi, m) ==
    IF lo = hi
    THEN [base |-> (l[lo] * m) \div Limb, step |-> Limb - ((l[lo] * m) % Limb)]
    ELSE LET mid == (lo + hi) \div 2
             low == CarryOut(l, lo, mid, m)
             high == CarryOut(l, mid + 1, hi, m)
             out0 == high.base + (IF low.base >= high.step THEN 1 ELSE 0)
             out1 == high.base + (IF low.base + 1 >= high.step THEN 1 ELSE 0)
         IN [base |-> out0, step |-> IF out0 = out1 THEN Limb ELSE low.step]

\* the carry into limb k of l * m + carry
CarryInto(l, k, m, carry) ==
    IF k = 1 THEN carry
    ELSE LET c == CarryOut(l, 1, k - 1, m)
         IN c.base + (IF carry >= c.step THEN 1 ELSE 0)

\* l * m + carry
MulLimbs(l, m, carry) ==
    LET top == CarryInto(l, Len(l) + 1, m, carry)
    IN [k \in 1..Len(l) |-> (l[k] * m + CarryInto(l, k, m, carry)) % Limb]
       \o (IF top = 0 THEN <<>> ELSE <<top>>)

\* b * m + carry
MulSmall(b, m, carry) == LimbsBits(MulLimbs(BitsLimbs(b), m, carry))

\* l * m^k
RECURSIVE MulRepeat(_, _, _)
MulRepeat(l, m, k) ==
    IF k = 0 \/ l = <<>> THEN l ELSE MulRepeat(MulLimbs(l, m, 0), m, k - 1)

\* l * 10^n
MulPowLimbs(l, n) == MulLimbs(MulRepeat(l, 10000, n \div 4), 10 ^ (n % 4), 0)

MulPow10(b, n) == LimbsBits(MulPowLimbs(BitsLimbs(b), n))

\* Limb^e modulo m
RECURSIVE PowMod(_, _)
PowMod(e, m) ==
    IF e = 0 THEN 1 % m
    ELSE LET h == PowMod(e \div 2, m)
         IN (((h * h) % m) * (IF e % 2 = 1 THEN Limb % m ELSE 1)) % m

\* the remainder by m, up to 10000, of the limbs lo..hi of l, by halves
RECURSIVE RemRange(_, _, _, _)
RemRange(l, lo, hi, m) ==
    IF lo > hi THEN 0
    ELSE IF lo = hi THEN l[lo] % m
    ELSE LET mid == (lo + hi) \div 2
         IN (RemRange(l, mid + 1, hi, m) * PowMod(mid + 1 - lo, m)
             + RemRange(l, lo, mid, m)) % m

\* the remainder by m of the limbs of l from k up
RemFrom(l, k, m) == RemRange(l, k, Len(l), m)

\* the quotient of l by m, without a leading zero limb
DivLimbs(l, m) ==
    LET q == [k \in 1..Len(l) |-> (RemFrom(l, k + 1, m) * Limb + l[k]) \div m]
    IN IF l # <<>> /\ q[Len(l)] = 0 THEN SubSeq(q, 1, Len(l) - 1)
       ELSE SubSeq(q, 1, Len(l))

\* floor(l / m^k), and whether anything was left over
RECURSIVE DivRepeat(_, _, _, _)
DivRepeat(l, m, k, sticky) ==
    IF k = 0 \/ l = <<>> THEN [q |-> l, sticky |-> sticky]
    ELSE IF sticky THEN DivRepeat(DivLimbs(l, m), m, k - 1, TRUE)
    ELSE DivRepeat(DivLimbs(l, m), m, k - 1, RemFrom(l, 1, m) # 0)

\* floor(l / 10^n), and whether anything was left over
DivPowLimbs(l, n, sticky) ==
    DivRepeat(DivRepeat(l, 10000, n \div 4, sticky).q, 10 ^ (n % 4), 1,
              DivRepeat(l, 10000, n \div 4, sticky).sticky)

DivPow10(b, n) ==
    LET d == DivPowLimbs(BitsLimbs(b), n, FALSE)
    IN [q |-> LimbsBits(d.q), sticky |-> d.sticky]

Pad(b, w) == [j \in 1..w |-> IF j <= Len(b) THEN b[j] ELSE 0]

\* the bytes, least significant first, of 8 * w bits
BitsBytes(b, w) ==
    [k \in 1..w |->
        LET o == 8 * (k - 1)
        IN b[o + 1] + 2 * b[o + 2] + 4 * b[o + 3] + 8 * b[o + 4] + 16 * b[o + 5]
           + 32 * b[o + 6] + 64 * b[o + 7] + 128 * b[o + 8]]

BytesBits(d) ==
    [j \in 1..(8 * Len(d)) |-> (d[((j - 1) \div 8) + 1] \div (2 ^ ((j - 1) % 8))) % 2]

\* the Int of a sign and the bits of a magnitude
IntOf(neg, b) ==
    IF Len(b) <= 31 THEN IntV(IF neg THEN -BitsNat(b, 1) ELSE BitsNat(b, 1))
    ELSE IntW(neg, b)

\* the two's complement of w bits: the bits up to the lowest set one stay
\* and those above it are inverted
Negate(b, w) ==
    LET set == {j \in 1..w : b[j] = 1}
        low == IF set = {} THEN w ELSE CHOOSE j \in set : \A i \in set : j <= i
    IN SubSeq([j \in 1..w |-> IF j <= low THEN b[j] ELSE 1 - b[j]], 1, w)

\* int64 in little-endian two's complement of an Int beyond 32 bits
Int64LEWide(v) ==
    LET b == SubSeq(Pad(v.bits, 64), 1, 64)
    IN SubSeq(BitsBytes(IF v.neg THEN Negate(b, 64) ELSE b, 8), 1, 8)

\* A Float is the 8 bytes, least significant first, of its IEEE 754
\* double: 52 fraction bits, 11 exponent bits biased by 1023, the sign.
FloatB(bits) == [t |-> "float", bits |-> bits]

\* math.Inf and math.NaN
InfBits(neg) == <<0, 0, 0, 0, 0, 0, 240, IF neg THEN 255 ELSE 127>>
NaNBits == <<1, 0, 0, 0, 0, 0, 248, 127>>

\* the float64 that holds mant * 2^e, negated if neg, when it holds it
\* exactly
Float64bits(neg, mant, e) ==
    LET L == Len(mant)
        e2 == L - 1 + e
        normal == mant # <<>> /\ e2 >= -1022
        frac == IF mant = <<>> THEN <<>>
                ELSE IF normal THEN SubSeq(Shl(mant, 53 - L), 1, 52)
                ELSE Shl(mant, e + 1074)
        biased == IF normal THEN e2 + 1023 ELSE 0
    IN BitsBytes(Pad(frac, 52) \o Pad(NatBits(biased), 11)
                 \o <<IF neg THEN 1 ELSE 0>>, 8)

\* a Float holding a multiple of one half: FloatV(h) is h/2
FloatV(h) == FloatB(Float64bits(h < 0, NatBits(Abs(h)), -1))

\* the rounded mantissa mant at the exponent lsb
Rounded(mant, lsb, emax) ==
    [mant |-> Trim(mant), e |-> lsb,
     range |-> mant # <<>> /\ Len(mant) - 1 + lsb > emax]

\* q without its lowest drop bits (kept), rounded to nearest, ties to even
RoundKept(q, sticky, drop, kept, lsb, emax) ==
    Rounded(IF /\ drop >= 1 /\ drop <= Len(q) /\ q[drop] = 1
               /\ \/ sticky
                  \/ \E j \in 1..(IF drop - 1 < Len(q) THEN drop - 1 ELSE Len(q)) :
                        q[j] = 1
                  \/ (kept # <<>> /\ kept[1] = 1)
            THEN MulSmall(kept, 1, 1) ELSE kept,
            lsb, emax)

\* rounding at the bit of weight 2^lsb
RoundAt(q, s, sticky, lsb, emax) ==
    RoundKept(q, sticky, lsb + s, Trim(Shl(q, -(lsb + s))), lsb, emax)

\* the nearest float, ties to even, to (q + f) * 2^(-s) with 0 <= f < 1 and
\* f > 0 exactly if sticky, for q > 0: prec mantissa bits and exponents
\* emin..emax.  The result is mant * 2^e; range tells an overflow.
RoundFloat(q, s, sticky, prec, emin, emax) ==
    RoundAt(q, s, sticky,
            (IF Len(q) - 1 - s > emin THEN Len(q) - 1 - s ELSE emin) - (prec - 1),
            emax)

\* binary.Write(LittleEndian, float64) of h/2
Float64LE(h) == FloatV(h).bits

\* the float32 bits of the float32 that holds mant * 2^e exactly
Float32bits(neg, mant, e) ==
    LET L == Len(mant)
        e2 == L - 1 + e
        normal == mant # <<>> /\ e2 >= -126
        frac == IF mant = <<>> THEN <<>>
                ELSE IF normal THEN SubSeq(Shl(mant, 24 - L), 1, 23)
                ELSE Shl(mant, e + 149)
        biased == IF normal THEN e2 + 127 ELSE 0
    IN BitsBytes(Pad(frac, 23) \o Pad(NatBits(biased), 8)
                 \o <<IF neg THEN 1 ELSE 0>>, 4)

\* binary.Write(LittleEndian, float32) of h/2
Float32LE(h) == Float32bits(h < 0, NatBits(Abs(h)), -1)

\* A bytes.Buffer as [buf, cap]: the bytes written and the capacity of
\* the slice that holds them.  The first write of up to SmallBufferSize
\* bytes allocates that much; a write that does not fit moves the bytes
\* to a slice of twice the capacity, or of what is needed if that is
\* more, rounded up to an allocation size class.
SmallBufferSize == 64

SizeClasses ==
    <<8, 16, 24, 32, 48, 64, 80, 96, 112, 128, 144, 160, 176, 192, 208, 224,
      240, 256, 288, 320, 352, 384, 416, 448, 480, 512, 576, 640, 704, 768,
      896, 1024, 1152, 1280, 1408, 1536, 1792, 2048, 2304, 2688, 3072, 3200,
      3456, 4096, 4864, 5120, 5376, 6144, 6528, 6784, 6912, 8192, 9472, 9728,
      10240, 10880, 12288, 13568, 14336, 16384, 18432, 19072, 20480, 21760,
      24576, 27264, 28672, 32768>>

PageSize == 8192

RoundUpSize(n) ==
    IF n > SizeClasses[Len(SizeClasses)]
    THEN ((n + PageSize - 1) \div PageSize) * PageSize
    ELSE SizeClasses[CHOOSE k \in 1..Len(SizeClasses) :
                        /\ SizeClasses[k] >= n
                        /\ \A j \in 1..(k - 1) : SizeClasses[j] < n]

\* the capacity after Buffer.grow(n)
BufferGrow(st, n) ==
    IF n <= st.cap - Len(st.buf) THEN st.cap
    ELSE IF st.cap = 0 /\ n <= SmallBufferSize THEN SmallBufferSize
    ELSE RoundUpSize(IF Len(st.buf) + n < 2 * st.cap THEN 2 * st.cap
                     ELSE Len(st.buf) + n)

\* a write of bytes p after making room for n bytes, and *i++
BufferWrite(st, p, n) ==
    [st EXCEPT !.buf = @ \o p, !.cap = BufferGrow(st, n), !.i = @ + 1]

UTFMax == 4
RuneError == 65533

\* utf8.AppendRune: the UTF-8 bytes of rune r; a surrogate or a value that
\* is no code point is written as RuneError
RECURSIVE EncodeRune(_)
EncodeRune(r) ==
    IF r < 0 \/ r > 1114111 \/ (r >= 55296 /\ r <= 57343) THEN EncodeRune(RuneError)
    ELSE IF r < 128 THEN <<r>>
    ELSE IF r < 2048 THEN <<192 + (r \div 64), 128 + (r % 64)>>
    ELSE IF r < 65536
    THEN <<224 + (r \div 4096), 128 + ((r \div 64) % 64), 128 + (r % 64)>>
    ELSE <<240 + (r \div 262144), 128 + ((r \div 4096) % 64),
           128 + ((r \div 64) % 64), 128 + (r % 64)>>

\* makeData(i, data, thing): st = [i, buf, cap, err] is the counter *i, the
\* bytes written to the buffer so far, the buffer's capacity and the
\* error returned.
RECURSIVE makeData(_, _)
RECURSIVE makeDataArray(_, _, _)
makeDataArray(st, elems, k) ==
    IF k > Len(elems) THEN st
    ELSE LET s1 == makeData(st, elems[k])
         IN IF s1.err # NoErr THEN s1
            ELSE makeDataArray([s1 EXCEPT !.i = @ + 1], elems, k + 1)

makeData(st, thing) ==
    CASE thing.t = "array" -> makeDataArray(st, thing.a, 1)
      [] thing.t = "pair" ->
            LET s1 == makeData(st, thing.head)
            IN IF s1.err # NoErr THEN s1
               ELSE LET s2 == makeData([s1 EXCEPT !.i = @ + 1], thing.tail)
                    IN IF s2.err # NoErr THEN s2
                       ELSE [s2 EXCEPT !.i = @ + 1]
      [] thing.t = "str" -> BufferWrite(st, thing.s, Len(thing.s))
      [] thing.t = "data" -> BufferWrite(st, thing.d, Len(thing.d))
      [] thing.t = "int" ->
            BufferWrite(st, IF IsWide(thing) THEN Int64LEWide(thing)
                            ELSE Int64LE(thing.n), 8)
      [] thing.t = "float" -> BufferWrite(st, thing.bits, 8)
      [] thing.t = "bool" -> BufferWrite(st, IF thing.b THEN <<1>> ELSE <<0>>, 1)
      [] thing.t = "char" ->
            \* WriteRune: one byte, or room for UTFMax bytes and the encoding
            IF thing.c >= 0 /\ thing.c < 128 THEN BufferWrite(st, <<thing.c>>, 1)
            ELSE BufferWrite(st, EncodeRune(thing.c), UTFMax)
      [] OTHER -> [st EXCEPT !.err = "MakeData failed"]

Coalesce(name) == name \in {"?append", "?concat"}

RECURSIVE MakeDataLoop(_, _, _, _)
MakeDataLoop(coalesce, as, k, st) ==
    IF k > Len(as)
    THEN \* data.Bytes(): the buffer's slice, with the capacity it has grown to
         Ret(DataC(st.buf, [j \in 1..(st.cap - Len(st.buf)) |-> 0]), NoErr)
    ELSE IF coalesce /\ IsEmpty(as[k]) THEN MakeDataLoop(coalesce, as, k + 1, st)
    ELSE LET s1 == makeData(st, as[k])
         IN IF s1.err # NoErr THEN Ret(NullV, s1.err)
            ELSE MakeDataLoop(coalesce, as, k + 1, s1)

\* variant: empty arguments are skipped whatever the name
MakeDataFunction_AlwaysCoalesce(name, as) ==
    MakeDataLoop(TRUE, as, 1, [i |-> 0, buf |-> <<>>, cap |-> 0, err |-> NoErr])

MakeDataFunction(name, as) ==
    MakeDataLoop(Coalesce(name), as, 1, [i |-> 0, buf |-> <<>>, cap |-> 0, err |-> NoErr])

\* ----------------------------------------------------- concat / append
ConcatArray(arr, expr) ==
    IF expr.t # "array" THEN Ret(arr, "second argument is not an array")
    ELSE LET g == GoAppend(arr.a, arr.spare, expr.a)
         IN Ret(ArrC(g.a, g.spare), NoErr)

RECURSIVE ConcatList(_, _)
ConcatList(a, b) ==
    IF ~IsList(b) THEN Ret(NullV, NotAList)
    ELSE IF a.tail = NullV THEN Ret(Cons(a.head, b), NoErr)
    ELSE IF a.tail.t = "pair"
    THEN LET r == ConcatList(a.tail, b)
         IN IF r.err # NoErr THEN Ret(NullV, r.err)
            ELSE Ret(Cons(a.head, r.val), NoErr)
    ELSE Ret(NullV, NotAList)

ConcatStr(str, expr) ==
    IF expr.t # "str" THEN Ret(StrV(<<>>), "second argument is not a string")
    ELSE Ret(StrV(str.s \o expr.s), NoErr)

RECURSIVE Digits(_)
Digits(n) == IF n < 10 THEN <<48 + n>> ELSE Digits(n \div 10) \o <<48 + (n % 10)>>

AppendStr(str, expr) ==
    CASE expr.t = "str" -> Ret(StrV(str.s \o expr.s), NoErr)
      [] expr.t = "int" /\ expr.n >= 0 -> Ret(StrV(str.s \o Digits(expr.n)), NoErr)
      [] OTHER -> Ret(StrV(<<>>), WrongType)

\* the three loops of ConcatFunction, from args[1:] (k starts at 2)
RECURSIVE ConcatLoop(_, _, _, _, _)
ConcatLoop(kind, coalesce, t, as, k) ==
    IF k > Len(as) THEN Ret(t, NoErr)
    ELSE IF coalesce /\ IsEmpty(as[k]) THEN ConcatLoop(kind, coalesce, t, as, k + 1)
    ELSE LET r == CASE kind = "array" -> ConcatArray(t, as[k])
                    [] kind = "str" -> ConcatStr(t, as[k])
                    [] kind = "pair" -> ConcatList(t, as[k])
         IN IF r.err # NoErr THEN Ret(NilV, r.err)
            ELSE ConcatLoop(kind, coalesce, r.val, as, k + 1)

\* the appends ConcatFunction makes to an Array args[0]: the elements of
\* each argument in turn, up to the first that is no Array
RECURSIVE ConcatSteps(_, _, _)
ConcatSteps(coalesce, as, k) ==
    IF k > Len(as) THEN <<>>
    ELSE IF coalesce /\ IsEmpty(as[k]) THEN ConcatSteps(coalesce, as, k + 1)
    ELSE IF as[k].t # "array" THEN <<>>
    ELSE <<as[k].a>> \o ConcatSteps(coalesce, as, k + 1)

\* the arguments as a call of concat or ?concat leaves them: an Array
\* args[0] with spare capacity is appended to in place
ConcatArgs(name, as) ==
    IF Len(as) < 2 \/ as[1].t # "array" THEN as
    ELSE [as EXCEPT ![1] =
            ArrC(as[1].a,
                 WrittenSpare(as[1].spare, 0, ConcatSteps(Coalesce(name), as, 2), 1))]

ConcatFunction(name, as) ==
    IF Len(as) < 2 THEN Ret(NullV, WrongNargs)
    ELSE CASE as[1].t \in {"array", "str", "pair"} ->
                ConcatLoop(as[1].t, Coalesce(name), as[1], as, 2)
           [] as[1].t = "data" -> MakeDataFunction(name, as)
           [] OTHER -> Ret(NullV, "expected string|data|array|pair")

\* coalescing Array loop of AppendFunction: over args, the first included
RECURSIVE AppendArrayLoop(_, _, _)
AppendArrayLoop(t, as, k) ==
    IF k > Len(as) THEN Ret(t, NoErr)
    ELSE IF IsEmpty(as[k]) THEN AppendArrayLoop(t, as, k + 1)
    ELSE LET g == GoAppend(t.a, t.spare, <<as[k]>>)
         IN AppendArrayLoop(ArrC(g.a, g.spare), as, k + 1)

\* the appends AppendFunction makes to an Array args[0]: one of all the
\* other arguments, or for ?append one of each argument that is not empty,
\* args[0] itself coming first
AppendSteps(name, as) ==
    IF ~Coalesce(name) THEN <<Tail(as)>>
    ELSE LET marked == [i \in 1..Len(as) |->
                            IF i = 1 /\ ~IsEmpty(as[1]) THEN SelfV ELSE as[i]]
             kept == SelectSeq(marked, LAMBDA x : ~IsEmpty(x))
         IN [j \in 1..Len(kept) |-> <<kept[j]>>]

\* the arguments as a call of append or ?append leaves them: an Array
\* args[0] with spare capacity is appended to in place
AppendArgs(name, as) ==
    IF Len(as) < 2 \/ as[1].t # "array" THEN as
    ELSE [as EXCEPT ![1] =
            ArrC(as[1].a, WrittenSpare(as[1].spare, 0, AppendSteps(name, as), 1))]

\* Str loop of AppendFunction: over args, the first included
RECURSIVE AppendStrLoop(_, _, _, _)
AppendStrLoop(coalesce, t, as, k) ==
    IF k > Len(as) THEN Ret(t, NoErr)
    ELSE IF coalesce /\ IsEmpty(as[k]) THEN AppendStrLoop(coalesce, t, as, k + 1)
    ELSE LET r == AppendStr(t, as[k])
         IN IF r.err # NoErr THEN Ret(NilV, r.err)
            ELSE AppendStrLoop(coalesce, r.val, as, k + 1)

AppendFunction(name, as) ==
    IF Len(as) < 2 THEN Ret(NullV, WrongNargs)
    ELSE CASE as[1].t = "array" ->
                \* the element appended first is args[0], which the appends
                \* that follow may still write to
                IF Coalesce(name) THEN AppendArrayLoop(as[1], AppendArgs(name, as), 1)
                ELSE LET g == GoAppend(as[1].a, as[1].spare, Tail(as))
                     IN Ret(ArrC(g.a, g.spare), NoErr)
           [] as[1].t = "str" -> AppendStrLoop(Coalesce(name), as[1], as, 1)
           [] as[1].t = "data" -> MakeDataFunction(name, as)
           [] OTHER -> Ret(NullV, "First argument of append must be array or string or data")

\* ------------------------------------------------- arrays on the heap
\* An Array value is a slice header on a backing store: `store` holds the
\* backing stores allocated so far and a header names one of them, the
\* offset of the slice in it, its length and its capacity.
Hdr(b, off, len, cap) == [t |-> "array", b |-> b, off |-> off, len |-> len, cap |-> cap]

\* the elements of the array
View(st, h) == SubSeq(st[h.b], h.off + 1, h.off + h.len)

\* append(t, xs...) on the heap: the elements are written behind the
\* slice when its capacity suffices and the slice is copied to a new
\* backing store otherwise
HeapAppend(st, h, xs) ==
    IF h.len + Len(xs) <= h.cap
    THEN [store |-> [st EXCEPT ![h.b] =
                        [j \in 1..Len(@) |->
                            IF j > h.off + h.len /\ j <= h.off + h.len + Len(xs)
                            THEN xs[j - h.off - h.len] ELSE @[j]]],
          hdr |-> [h EXCEPT !.len = @ + Len(xs)]]
    ELSE LET need == h.len + Len(xs)
             cap == GrowCap(h.cap, need)
         IN [store |-> Append(st, View(st, h) \o xs \o [j \in 1..(cap - need) |-> NilV]),
             hdr |-> Hdr(Len(st) + 1, 0, need, cap)]

\* IsEmpty of an operand on the heap
IsEmptyOnHeap(x) == x.t = "null" \/ (x.t = "array" /\ x.len = 0)

\* t[start:end] of an Array
HeapSliceOk(h, start, end) == 0 <= start /\ start <= end /\ end <= h.cap
HeapSlice(h, start, end) == Hdr(h.b, h.off + start, end - start, h.cap - start)

\* the SexpArray case of RestFunction
HeapRest(h) == IF h.len = 0 THEN h ELSE Hdr(h.b, h.off + 1, h.len - 1, h.cap - 1)

\* aset! on a held array: arr[i] = args[2] writes to the backing store
HeapAset(st, h, i, x) == [st EXCEPT ![h.b][h.off + i + 1] = x]

\* the SexpArray case of AppendFunction: as[1] is the header t
RECURSIVE HeapAppendLoop(_, _, _, _)
HeapAppendLoop(st, t, as, k) ==
    IF k > Len(as) THEN [store |-> st, hdr |-> t]
    ELSE IF IsEmptyOnHeap(as[k]) THEN HeapAppendLoop(st, t, as, k + 1)
    ELSE LET g == HeapAppend(st, t, <<as[k]>>)
         IN HeapAppendLoop(g.store, g.hdr, as, k + 1)

HeapAppendFunction(name, st, as) ==
    IF Coalesce(name) THEN HeapAppendLoop(st, as[1], as, 1)
    ELSE HeapAppend(st, as[1], Tail(as))

\* the SexpArray case of ConcatFunction with ConcatArray, on Array operands
RECURSIVE HeapConcatLoop(_, _, _, _, _)
HeapConcatLoop(coalesce, st, t, as, k) ==
    IF k > Len(as) THEN [store |-> st, hdr |-> t]
    ELSE IF coalesce /\ IsEmptyOnHeap(as[k])
    THEN HeapConcatLoop(coalesce, st, t, as, k + 1)
    ELSE LET g == HeapAppend(st, t, View(st, as[k]))
         IN HeapConcatLoop(coalesce, g.store, g.hdr, as, k + 1)

HeapConcatFunction(name, st, as) == HeapConcatLoop(Coalesce(name), st, as[1], as, 2)

\* ---------------------------------------------------------- conversions
\* an outcome of ConvertFunction: `arg` is the argument index the error
\* message carries (-1 when it carries none)
RetArg(v, e, i) == [val |-> v, err |-> e, calls |-> <<>>, arg |-> i]

FailedConverting == "failed converting arg"
Unimplemented == "unable to convert arg; unimplemented"

\* variant: whatever the width asked for, an int32 is read
ReadInt_Int32(d, w) ==
    LET b == SubSeq(BytesBits(SubSeq(d, 1, 4)), 1, 32)
    IN IF b[32] = 1 THEN IntOf(TRUE, Trim(Negate(b, 32)))
       ELSE IntOf(FALSE, Trim(b))

\* binary.Read(LittleEndian) of a signed integer of w bytes from d, as the
\* SexpInt made of it
ReadInt(d, w) ==
    LET b == SubSeq(BytesBits(SubSeq(d, 1, w)), 1, 8 * w)
    IN IF b[8 * w] = 1 THEN IntOf(TRUE, Trim(Negate(b, 8 * w)))
       ELSE IntOf(FALSE, Trim(b))

\* binary.Read(LittleEndian) of a float64: the Float whose bytes these are
ReadFloat64(d) == SubSeq(d, 1, 8)

\* binary.Read(LittleEndian) of a float32, widened by SexpFloat(value): 23
\* fraction bits, 8 exponent bits biased by 127, the sign.  The widening
\* of a NaN keeps its fraction and makes it quiet.
ReadFloat32(d) ==
    LET b == BytesBits(SubSeq(d, 1, 4))
        frac == SubSeq(b, 1, 23)
        ex == BitsNat(SubSeq(b, 24, 31), 1)
        neg == b[32] = 1
    IN IF ex = 255
       THEN IF Trim(frac) = <<>> THEN InfBits(neg)
            ELSE BitsBytes([j \in 1..29 |-> 0] \o SubSeq(frac, 1, 22)
                           \o [j \in 1..12 |-> 1] \o <<b[32]>>, 8)
       ELSE IF ex = 0 THEN Float64bits(neg, Trim(frac), -149)
       ELSE Float64bits(neg, frac \o <<1>>, ex - 150)

\* int(float64(t)) for a Float of magnitude below 2^31: the fraction is
\* dropped.  (Beyond the range of int the conversion is specific to the
\* processor; the Floats converted in this model are below 2^31.)
FloatToInt(bits) ==
    LET b == BytesBits(bits)
        p == BitsNat(SubSeq(b, 53, 63), 1) - 1023
        n == BitsNat(SubSeq(b, 53 - p, 52) \o <<1>>, 1)
    IN CASE p < 0 -> 0
         [] p \in 0..30 -> IF b[64] = 1 THEN -n ELSE n

\* float64(int(t))
IntToFloat(n) == Float64bits(n < 0, NatBits(Abs(n)), 0)

IsDigit(c) == c \in 48..57

RECURSIVE DigitsValue(_, _)
DigitsValue(s, k) ==
    IF k = 0 THEN 0 ELSE 10 * DigitsValue(s, k - 1) + (s[k] - 48)

\* strconv.Atoi: an optional sign, then one or more decimal digits
Atoi(s) ==
    LET signed == Len(s) > 0 /\ s[1] \in {43, 45}
        ds == IF signed THEN Tail(s) ELSE s
    IN IF ds = <<>> \/ \E k \in 1..Len(ds) : ~IsDigit(ds[k])
       THEN [ok |-> FALSE, n |-> 0]
       ELSE [ok |-> TRUE,
             n |-> IF signed /\ s[1] = 45 THEN -DigitsValue(ds, Len(ds))
                   ELSE DigitsValue(ds, Len(ds))]

Lower(c) == IF c \in 65..90 THEN c + 32 ELSE c

\* "infinity" and "nan"
InfinityText == <<105, 110, 102, 105, 110, 105, 116, 121>>
NaNText == <<110, 97, 110>>

RECURSIVE CommonPrefixLenIgnoreCase(_, _, _)
CommonPrefixLenIgnoreCase(s, prefix, k) ==
    IF k > Len(s) \/ k > Len(prefix) \/ Lower(s[k]) # prefix[k] THEN k - 1
    ELSE CommonPrefixLenIgnoreCase(s, prefix, k + 1)

\* strconv's special: an optionally signed "inf" or "infinity", or "nan",
\* in either case of letters; n is the number of bytes it takes
Special(s) ==
    LET signed == Len(s) > 0 /\ s[1] \in {43, 45}
        body == IF signed THEN Tail(s) ELSE s
        c == CommonPrefixLenIgnoreCase(body, InfinityText, 1)
        n == IF 3 < c /\ c < 8 THEN 3 ELSE c
    IN IF Len(s) = 0 THEN [ok |-> FALSE, n |-> 0, bits |-> NaNBits]
       ELSE IF (signed \/ Lower(s[1]) = 105) /\ n \in {3, 8}
       THEN [ok |-> TRUE, n |-> n + (IF signed THEN 1 ELSE 0),
             bits |-> InfBits(s[1] = 45)]
       ELSE IF Lower(s[1]) = 110 /\ CommonPrefixLenIgnoreCase(s, NaNText, 1) = 3
       THEN [ok |-> TRUE, n |-> 3, bits |-> NaNBits]
       ELSE [ok |-> FALSE, n |-> 0, bits |-> NaNBits]

IsHexLetter(c) == Lower(c) \in 97..102

\* the digits loop of strconv's readFloat from s[i] on: mant is the number
\* the digits spell in the base, dp counts the digits after the point
RECURSIVE ReadDigits(_, _, _, _)
ReadDigits(s, i, base, st) ==
    IF i > Len(s) THEN [st EXCEPT !.i = i]
    ELSE LET c == s[i] IN
        CASE c = 95 -> ReadDigits(s, i + 1, base, [st EXCEPT !.underscores = TRUE])
          [] c = 46 /\ ~st.sawdot ->
                ReadDigits(s, i + 1, base, [st EXCEPT !.sawdot = TRUE])
          [] IsDigit(c) \/ (base = 16 /\ IsHexLetter(c)) ->
                ReadDigits(s, i + 1, base,
                    [st EXCEPT !.sawdigits = TRUE,
                               !.mant = MulSmall(@, base,
                                    IF IsDigit(c) THEN c - 48 ELSE Lower(c) - 87),
                               !.dp = IF st.sawdot THEN @ + 1 ELSE @])
          [] OTHER -> [st EXCEPT !.i = i]

\* the exponent digits of readFloat from s[i] on
RECURSIVE ReadExponent(_, _, _)
ReadExponent(s, i, st) ==
    IF i > Len(s) \/ ~(IsDigit(s[i]) \/ s[i] = 95) THEN [st EXCEPT !.i = i]
    ELSE IF s[i] = 95
    THEN ReadExponent(s, i + 1, [st EXCEPT !.underscores = TRUE])
    ELSE ReadExponent(s, i + 1,
            [st EXCEPT !.e = IF @ < 10000 THEN @ * 10 + (s[i] - 48) ELSE @])

\* strconv's underscoreOK on s[i..n]: an underscore stands between digits
\* or between the base prefix and a digit
RECURSIVE UnderscoreLoop(_, _, _, _, _)
UnderscoreLoop(s, i, n, hex, saw) ==
    IF i > n THEN saw # "_"
    ELSE IF IsDigit(s[i]) \/ (hex /\ IsHexLetter(s[i]))
    THEN UnderscoreLoop(s, i + 1, n, hex, "0")
    ELSE IF s[i] = 95
    THEN saw = "0" /\ UnderscoreLoop(s, i + 1, n, hex, "_")
    ELSE saw # "_" /\ UnderscoreLoop(s, i + 1, n, hex, "!")

UnderscoreOK(s, n) ==
    LET i == IF n >= 1 /\ s[1] \in {43, 45} THEN 2 ELSE 1
        prefix == n >= i + 1 /\ s[i] = 48 /\ Lower(s[i + 1]) \in {98, 111, 120}
    IN UnderscoreLoop(s, IF prefix THEN i + 2 ELSE i, n,
                      prefix /\ Lower(s[i + 1]) = 120, IF prefix THEN "0" ELSE "^")

\* readFloat once the digits (d) and the exponent (x) are read; e0 is
\* where the exponent digits start
ReadFloatResult(s, i0, hex, d, marked, esigned, e0, x) ==
    [ok |-> /\ Len(s) >= i0
            /\ d.sawdigits
            /\ marked => (e0 <= Len(s) /\ IsDigit(s[e0]))
            /\ hex => marked
            /\ x.underscores => UnderscoreOK(s, x.i - 1),
     n |-> x.i - 1,
     neg |-> Len(s) > 0 /\ s[1] = 45,
     hex |-> hex,
     mant |-> Trim(d.mant),
     exp |-> (IF marked /\ esigned /\ s[d.i + 1] = 45 THEN -x.e ELSE x.e)
             - (IF hex THEN 4 * d.dp ELSE d.dp)]

ReadFloatExponent(s, i0, hex, d, marked, esigned, e0) ==
    ReadFloatResult(s, i0, hex, d, marked, esigned, e0,
                    IF marked THEN ReadExponent(s, e0, d) ELSE d)

ReadFloatMark(s, i0, hex, d) ==
    ReadFloatExponent(s, i0, hex, d,
        d.i <= Len(s) /\ Lower(s[d.i]) = (IF hex THEN 112 ELSE 101),
        d.i + 1 <= Len(s) /\ s[d.i + 1] \in {43, 45},
        IF d.i + 1 <= Len(s) /\ s[d.i + 1] \in {43, 45} THEN d.i + 2 ELSE d.i + 1)

ReadFloatDigits(s, i0, hex) ==
    ReadFloatMark(s, i0, hex,
        ReadDigits(s, IF hex THEN i0 + 2 ELSE i0, IF hex THEN 16 ELSE 10,
            [i |-> 0, sawdot |-> FALSE, sawdigits |-> FALSE,
             underscores |-> FALSE, mant |-> <<>>, dp |-> 0, e |-> 0]))

ReadFloatBase(s, i0) ==
    ReadFloatDigits(s, i0, i0 + 2 <= Len(s) /\ s[i0] = 48 /\ Lower(s[i0 + 1]) = 120)

\* strconv's readFloat: the sign, the mantissa mant in the base (16 after
\* "0x", else 10) and the exponent exp of the base (of 2 for base 16) the
\* text s[1..n] spells
ReadFloat(s) == ReadFloatBase(s, IF Len(s) > 0 /\ s[1] \in {43, 45} THEN 2 ELSE 1)

\* the quotient d scaled by 2^s2
WithScale(d, s2) == [q |-> d.q, s |-> s2, sticky |-> d.sticky]

\* the number r spells as (q + f) * 2^(-s), 0 <= f < 1, f > 0 if sticky
Scale(r) ==
    IF r.hex THEN [q |-> r.mant, s |-> -r.exp, sticky |-> FALSE]
    ELSE IF r.exp >= 0
    THEN [q |-> MulPow10(r.mant, r.exp), s |-> 0, sticky |-> FALSE]
    ELSE WithScale(DivPow10(Shl(r.mant, (3322 * (-r.exp)) \div 1000 + 65), -r.exp),
                   (3322 * (-r.exp)) \div 1000 + 65)

RoundScaled(sc, prec, emax) ==
    RoundFloat(sc.q, sc.s, sc.sticky, prec, 1 - emax, emax)

\* the float of the rounded number f, or the range error
ParseRounded(r, f) ==
    IF f.range THEN [ok |-> FALSE, bits |-> InfBits(r.neg)]
    ELSE [ok |-> TRUE, bits |-> Float64bits(r.neg, f.mant, f.e)]

\* the float of the number r that readFloat read from s.  A decimal
\* number is below 10^(digits + r.exp), digits being a bound on its
\* mantissa's digits.
ParseNumber(s, bitSize, r) ==
    IF ~r.ok \/ r.n # Len(s) THEN [ok |-> FALSE, bits |-> NaNBits]
    ELSE IF r.mant = <<>> \/ (~r.hex /\ (Len(r.mant) * 302) \div 1000 + 1 + r.exp < -330)
    THEN [ok |-> TRUE, bits |-> IF r.neg THEN <<0, 0, 0, 0, 0, 0, 0, 128>>
                                ELSE <<0, 0, 0, 0, 0, 0, 0, 0>>]
    ELSE IF ~r.hex /\ r.exp > 310 THEN [ok |-> FALSE, bits |-> InfBits(r.neg)]
    ELSE ParseRounded(r, RoundScaled(Scale(r), IF bitSize = 32 THEN 24 ELSE 53,
                                     IF bitSize = 32 THEN 127 ELSE 1023))

\* strconv.ParseFloat(s, bitSize): the float of that size nearest to the
\* number s spells, widened to float64; ok is FALSE on a syntax error and
\* on a number beyond the floats of that size
ParseFloat(s, bitSize) ==
    LET sp == Special(s)
    IN IF sp.ok
       THEN [ok |-> sp.n = Len(s),
             bits |-> IF bitSize = 32 /\ sp.bits = NaNBits
                      THEN <<0, 0, 0, 0, 0, 0, 248, 127>> ELSE sp.bits]
       ELSE ParseNumber(s, bitSize, ReadFloat(s))

\* the bytes of a builtin's name
NameText(name) ==
    CASE name = "cons" -> <<99, 111, 110, 115>>
      [] name = "first" -> <<102, 105, 114, 115, 116>>
      [] name = "len" -> <<108, 101, 110>>
      [] name = "+" -> <<43>>
      [] name = "-" -> <<45>>
      [] name = "*" -> <<42>>
      [] name = "/" -> <<47>>

\* the printed form of a value
SexpString(v) ==
    CASE v.t = "int" ->
            IF v.n < 0 THEN <<45>> \o Digits(-v.n) ELSE Digits(v.n)
      [] v.t = "bool" ->
            IF v.b THEN <<116, 114, 117, 101>> ELSE <<102, 97, 108, 115, 101>>
      [] v.t = "null" -> <<40, 41>>
      [] v.t = "str" -> <<34>> \o v.s \o <<34>>
      [] v.t = "fun" -> <<102, 110, 32, 91>> \o NameText(v.name) \o <<93>>

\* case "cvert-str"
RECURSIVE ConvertStrLoop(_, _, _)
ConvertStrLoop(as, k, buffer) ==
    IF k > Len(as) THEN RetArg(StrV(buffer), NoErr, -1)
    ELSE IF as[k].t = "data" THEN ConvertStrLoop(as, k + 1, buffer \o as[k].d)
    ELSE ConvertStrLoop(as, k + 1, buffer \o SexpString(as[k]))

\* ret = append(ret, x) on the array ret
Push(ret, x) ==
    LET g == GoAppend(ret.a, ret.spare, <<x>>) IN ArrC(g.a, g.spare)

\* cases "cvert-int64" (w = 8) and "cvert-int32" (w = 4); i = k - 1 is the
\* loop index
RECURSIVE ConvertIntLoop(_, _, _, _)
ConvertIntLoop(w, as, k, ret) ==
    IF k > Len(as) THEN RetArg(ret, NoErr, -1)
    ELSE LET arg == as[k] IN
        CASE arg.t = "data" ->
                IF Len(arg.d) < w THEN RetArg(NullV, FailedConverting, k - 1)
                ELSE ConvertIntLoop(w, as, k + 1, Push(ret, ReadInt(arg.d, w)))
          [] arg.t = "str" ->
                IF ~Atoi(arg.s).ok THEN RetArg(NullV, FailedConverting, k - 1)
                ELSE ConvertIntLoop(w, as, k + 1, Push(ret, IntV(Atoi(arg.s).n)))
          [] arg.t = "float" ->
                ConvertIntLoop(w, as, k + 1, Push(ret, IntV(FloatToInt(arg.bits))))
          [] arg.t = "bool" ->
                ConvertIntLoop(w, as, k + 1, Push(ret, IntV(IF arg.b THEN 1 ELSE 0)))
          [] OTHER -> RetArg(NullV, Unimplemented, k - 1)

\* cases "cvert-float32" (w = 4) and "cvert-float64" (w = 8)
RECURSIVE ConvertFloatLoop(_, _, _, _)
ConvertFloatLoop(w, as, k, ret) ==
    IF k > Len(as) THEN RetArg(ret, NoErr, -1)
    ELSE LET arg == as[k] IN
        CASE arg.t = "data" ->
                IF Len(arg.d) < w THEN RetArg(NullV, FailedConverting, k - 1)
                ELSE ConvertFloatLoop(w, as, k + 1,
                        Push(ret, FloatB(IF w = 4 THEN ReadFloat32(arg.d)
                                           ELSE ReadFloat64(arg.d))))
          [] arg.t = "str" ->
                IF ~ParseFloat(arg.s, 8 * w).ok
                THEN RetArg(NullV, FailedConverting, k - 1)
                ELSE ConvertFloatLoop(w, as, k + 1,
                        Push(ret, FloatB(ParseFloat(arg.s, 8 * w).bits)))
          [] arg.t = "int" ->
                ConvertFloatLoop(w, as, k + 1, Push(ret, FloatB(IntToFloat(arg.n))))
          [] arg.t = "bool" ->
                ConvertFloatLoop(w, as, k + 1,
                        Push(ret, FloatB(IntToFloat(IF arg.b THEN 1 ELSE 0))))
          [] OTHER -> RetArg(NullV, Unimplemented, k - 1)

\* variant: every name converts to a string
ConvertFunction_Stringify(name, as) ==
    IF Len(as) < 1 THEN RetArg(NullV, WrongNargs, -1)
    ELSE ConvertStrLoop(as, 1, <<>>)

ConvertFunction(name, as) ==
    IF Len(as) < 1 THEN RetArg(NullV, WrongNargs, -1)
    ELSE CASE name = "cvert-str" -> ConvertStrLoop(as, 1, <<>>)
           \* var ret []Sexp: no elements, no capacity
           [] name = "cvert-int64" -> ConvertIntLoop(8, as, 1, ArrV(<<>>))
           [] name = "cvert-int32" -> ConvertIntLoop(4, as, 1, ArrV(<<>>))
           [] name = "cvert-float32" -> ConvertFloatLoop(4, as, 1, ArrV(<<>>))
           [] name = "cvert-float64" -> ConvertFloatLoop(8, as, 1, ArrV(<<>>))
           [] OTHER -> RetArg(NullV, "Failure of function, not implemented", -1)

\* ---------------------------------------------------------------- eval
\* An engine: the program counter, the value stack, the call-frame stack
\* (return addresses) and the instructions of its main function.
Engine(p, ds, as, code) ==
    [pc |-> p, datastack |-> ds, addrstack |-> as, code |-> code]

NoEngine == Engine(-1, <<>>, <<>>, <<>>)

\* a fresh engine of its own: empty stacks, no instructions
Duplicate(e) == Engine(0, <<>>, <<>>, <<>>)

PushInstr(v) == [ins |-> "push", v |-> v, n |-> 0]
GetInstr(sym) == [ins |-> "get", v |-> sym, n |-> 0]
ArrayInstr(n) == [ins |-> "array", v |-> NullV, n |-> n]

CompileFailure == "failed to compile expression"
UndefinedSymbol == "symbol not found"

\* the instructions of an expression: a scalar pushes itself, a symbol is
\* looked up, an array expression evaluates its elements and collects
\* them; a pair that is not a list is no expression
RECURSIVE Generate(_)
RECURSIVE GenerateAll(_, _)
GenerateAll(exprs, k) ==
    IF k > Len(exprs) THEN [ok |-> TRUE, code |-> <<>>]
    ELSE LET g == Generate(exprs[k])
             r == GenerateAll(exprs, k + 1)
         IN IF ~g.ok \/ ~r.ok THEN [ok |-> FALSE, code |-> <<>>]
            ELSE [ok |-> TRUE, code |-> g.code \o r.code]

Generate(expr) ==
    CASE expr.t \in {"int", "bool", "str", "null"} ->
            [ok |-> TRUE, code |-> <<PushInstr(expr)>>]
      [] expr.t = "symbol" -> [ok |-> TRUE, code |-> <<GetInstr(expr)>>]
      [] expr.t = "array" ->
            LET g == GenerateAll(expr.a, 1)
            IN IF ~g.ok THEN g
               ELSE [ok |-> TRUE, code |-> g.code \o <<ArrayInstr(Len(expr.a))>>]
      [] OTHER -> [ok |-> FALSE, code |-> <<>>]

\* the engine with the instructions of the expressions appended
LoadExpressions(e, exprs) ==
    LET g == GenerateAll(exprs, 1)
    IN IF ~g.ok THEN [ok |-> FALSE, env |-> e]
       ELSE [ok |-> TRUE, env |-> [e EXCEPT !.code = @ \o g.code]]

\* runs the engine from its pc to the end of its instructions; no symbol
\* is bound
RECURSIVE Run(_)
Run(e) ==
    IF e.pc + 1 > Len(e.code)
    THEN IF e.datastack = <<>> THEN [val |-> NullV, err |-> NoErr, env |-> e]
         ELSE [val |-> e.datastack[Len(e.datastack)], err |-> NoErr,
               env |-> [e EXCEPT !.datastack = SubSeq(@, 1, Len(@) - 1)]]
    ELSE LET i == e.code[e.pc + 1] IN
        CASE i.ins = "push" ->
                Run([e EXCEPT !.datastack = Append(@, i.v), !.pc = @ + 1])
          [] i.ins = "get" -> [val |-> NullV, err |-> UndefinedSymbol, env |-> e]
          [] i.ins = "array" ->
                LET d == Len(e.datastack) IN
                Run([e EXCEPT
                        !.datastack = Append(SubSeq(@, 1, d - i.n),
                                             ArrV(SubSeq(@, d - i.n + 1, d))),
                        !.pc = @ + 1])

\* the outcome of eval with the calling engine and the engine it ran on
EvalOutcome(r, e, ne) == [res |-> r, env |-> e, newenv |-> ne]

\* variant: the expression is loaded into and run on the calling engine
EvalFunction_InPlace(e, as) ==
    IF Len(as) # 1 THEN EvalOutcome(Ret(NullV, WrongNargs), e, NoEngine)
    ELSE LET l == LoadExpressions(e, as)
         IN IF ~l.ok THEN EvalOutcome(Ret(NullV, CompileFailure), l.env, l.env)
            ELSE LET r == Run([l.env EXCEPT !.pc = 0])
                 IN EvalOutcome(Ret(r.val, r.err), r.env, r.env)

EvalFunction(e, as) ==
    IF Len(as) # 1 THEN EvalOutcome(Ret(NullV, WrongNargs), e, NoEngine)
    ELSE LET l == LoadExpressions(Duplicate(e), as)
         IN IF ~l.ok THEN EvalOutcome(Ret(NullV, CompileFailure), e, l.env)
            ELSE LET r == Run([l.env EXCEPT !.pc = 0])
                 IN EvalOutcome(Ret(r.val, r.err), e, r.env)

\* ------------------------------------------------- element access
SgetFunction(as) ==
    IF Len(as) # 2 THEN Ret(NullV, WrongNargs)
    ELSE IF as[1].t # "str" THEN Ret(NullV, "First argument of sget must be string")
    ELSE IF as[2].t \notin {"int", "char"}
    THEN Ret(NullV, "Second argument of sget must be integer")
    ELSE LET i == IF as[2].t = "int" THEN as[2].n ELSE as[2].c
         IN \* str[i] is not guarded
            IF i < 0 \/ i >= Len(as[1].s) THEN Ret(NullV, Panic)
            ELSE Ret(CharV(as[1].s[i + 1]), NoErr)

OutOfBounds == "Array index out of bounds"

\* aget and aset!: the outcome and the array as the call leaves it
ArrayAccessFunction(name, as) ==
    IF Len(as) < 2 THEN [res |-> Ret(NullV, WrongNargs), arr |-> NullV]
    ELSE IF as[1].t # "array"
    THEN [res |-> Ret(NullV, "First argument of aget must be array"), arr |-> as[1]]
    ELSE IF as[2].t \notin {"int", "char"}
    THEN [res |-> Ret(NullV, "Second argument of aget must be integer"), arr |-> as[1]]
    ELSE LET arr == as[1]
             i == IF as[2].t = "int" THEN as[2].n ELSE as[2].c
         IN IF i < 0 \/ i >= Len(arr.a) THEN [res |-> Ret(NullV, OutOfBounds), arr |-> arr]
            ELSE IF name = "aget" THEN [res |-> Ret(arr.a[i + 1], NoErr), arr |-> arr]
            ELSE IF Len(as) # 3 THEN [res |-> Ret(NullV, WrongNargs), arr |-> arr]
            ELSE [res |-> Ret(NullV, NoErr),
                  arr |-> [arr EXCEPT !.a[i + 1] = as[3]]]

KeyNotFound == "key not found"
CannotHash == "cannot hash type"
Hashable(key) == key.t \in {"int", "str", "char", "symbol"}

\* the outcome of a hash builtin with the hash as the call leaves it
HashOutcome(r, h) == [res |-> r, hash |-> h]

HashAccessFunction(name, as) ==
    IF Len(as) < 2 \/ Len(as) > 3 THEN HashOutcome(Ret(NullV, WrongNargs), NullV)
    ELSE IF as[1].t # "hash"
    THEN HashOutcome(Ret(NullV, "first argument of hget must be hash"), as[1])
    ELSE LET hash == as[1] IN
        CASE name = "hget" ->
                IF ~Hashable(as[2]) THEN HashOutcome(Ret(NullV, CannotHash), hash)
                ELSE IF HashGet(hash, as[2]).found
                THEN HashOutcome(Ret(HashGet(hash, as[2]).val, NoErr), hash)
                ELSE IF Len(as) = 3 THEN HashOutcome(Ret(as[3], NoErr), hash)
                ELSE HashOutcome(Ret(NullV, KeyNotFound), hash)
          [] name = "hset!" ->
                \* args[2] is read whatever the number of arguments
                IF Len(as) < 3 THEN HashOutcome(Ret(NullV, Panic), hash)
                ELSE IF ~Hashable(as[2]) THEN HashOutcome(Ret(NullV, CannotHash), hash)
                ELSE HashOutcome(Ret(NullV, NoErr), HashSet(hash, as[2], as[3]))
          [] name = "hdel!" ->
                IF Len(as) # 2 THEN HashOutcome(Ret(NullV, WrongNargs), hash)
                ELSE IF ~Hashable(as[2]) THEN HashOutcome(Ret(NullV, CannotHash), hash)
                ELSE HashOutcome(Ret(NullV, NoErr), HashDelete(hash, as[2]))

MakeArrayFunction(as) ==
    IF Len(as) < 1 THEN Ret(NullV, WrongNargs)
    ELSE IF as[1].t # "int" THEN Ret(NullV, "first argument must be integer")
    ELSE LET size == as[1].n
             fill == IF Len(as) = 2 THEN as[2] ELSE NullV
         IN \* make([]Sexp, size) is not guarded
            IF size < 0 THEN Ret(NullV, Panic)
            ELSE Ret(ArrV([j \in 1..size |-> fill]), NoErr)

\* ------------------------------------------------------- apply builtin
ApplyFunction(as) ==
    IF Len(as) # 2 THEN Ret(NullV, WrongNargs)
    ELSE IF as[1].t # "fun" THEN Ret(NullV, "first argument must be function")
    ELSE CASE as[2].t = "array" ->
                LET r == Apply(as[1], as[2].a)
                IN RetC(r.val, r.err, <<as[2].a>>)
           [] as[2].t = "pair" ->
                LET l == ListToArray(as[2])
                IN IF l.err # NoErr THEN Ret(NullV, l.err)
                   ELSE LET r == Apply(as[1], l.val)
                        IN RetC(r.val, r.err, <<l.val>>)
           [] as[2].t = "null" ->
                LET r == Apply(as[1], <<>>)
                IN RetC(r.val, r.err, <<<<>>>>)
           [] OTHER -> Ret(NullV, "second argument must be array or list")

\* ---------------------------------------------------------- file system
\* The files the extension functions see: the working directory and the
\* entries of the tree below the root.  A path is the sequence of names
\* from the root, a name a sequence of bytes.  An entry is a directory or
\* a file with its bytes; `info` tells whether lstat succeeds on it and
\* `mode` holds the permission bits.  `linked` is false in the FileInfo of
\* a directory that was removed while it was the working directory.
Entry(path, isdir, content, mode, info) ==
    [path |-> path, isdir |-> isdir, content |-> content, mode |-> mode,
     info |-> info, linked |-> TRUE]

\* the directory that was at path p, removed
Unlinked(p) == [Entry(p, TRUE, <<>>, 493, TRUE) EXCEPT !.linked = FALSE]

FileSystem(cwd, files) == [cwd |-> cwd, files |-> files]

NoFiles == FileSystem(<<>>, {})

\* FileInfo.Size() of a directory: one block, none once it is removed
DirSize == 4096

Size(e) == IF e.isdir THEN (IF e.linked THEN DirSize ELSE 0) ELSE Len(e.content)

\* os.ModeDir is the bit 2^31 of a FileMode
ModeDirBit == 31

\* FileInfo.Mode(), by its bits: the permission bits, and os.ModeDir for a
\* directory
FileMode(e) ==
    IF e.isdir
    THEN SubSeq([j \in 1..(ModeDirBit + 1) |->
                    IF j = ModeDirBit + 1 THEN 1 ELSE (e.mode \div (2 ^ (j - 1))) % 2],
                1, ModeDirBit + 1)
    ELSE NatBits(e.mode)


RootEntry == Entry(<<>>, TRUE, <<>>, 493, TRUE)

Exists(fs, p) == p = <<>> \/ \E e \in fs.files : e.path = p

IsDir(fs, p) == p = <<>> \/ \E e \in fs.files : e.path = p /\ e.isdir

EntryAt(fs, p) ==
    IF p = <<>> THEN RootEntry ELSE CHOOSE e \in fs.files : e.path = p

\* errno texts
ENOENT == "no such file or directory"
ENOTDIR == "not a directory"
EACCES == "permission denied"
EISDIR == "is a directory"
ENOTEMPTY == "directory not empty"
EINVAL == "invalid argument"
EBUSY == "device or resource busy"

\* the text of an *os.PathError or *os.SyscallError of operation o
PathError(o, e) == o \o ": " \o e

\* the names a path text spells: the runs of bytes between "/"
RECURSIVE SplitPath(_, _, _)
SplitPath(s, k, cur) ==
    IF k > Len(s) THEN (IF cur = <<>> THEN <<>> ELSE <<cur>>)
    ELSE IF s[k] = 47
    THEN (IF cur = <<>> THEN <<>> ELSE <<cur>>) \o SplitPath(s, k + 1, <<>>)
    ELSE SplitPath(s, k + 1, Append(cur, s[k]))

\* the text of a path
RECURSIVE PathText(_)
PathText(p) ==
    IF p = <<>> THEN <<47>>
    ELSE IF Len(p) = 1 THEN <<47>> \o p[1]
    ELSE PathText(SubSeq(p, 1, Len(p) - 1)) \o <<47>> \o p[Len(p)]

Dot == <<46>>
DotDot == <<46, 46>>

\* The kernel's walk along the names of a path text from the directory
\* cur.  `held` tells that cur is the working directory or was reached from
\* it through "." and ".." only: the process holds such a directory even
\* when it was removed, and no directory is ever made, so it was removed
\* exactly when no directory is at its path.  A removed directory keeps
\* "." and ".." and has no other name; `gone` tells that the walk ends in
\* one.
RECURSIVE LookupLoop(_, _, _, _, _)
LookupLoop(fs, cur, held, names, k) ==
    IF k > Len(names)
    THEN [err |-> NoErr, path |-> cur, gone |-> held /\ ~IsDir(fs, cur)]
    ELSE IF held /\ ~IsDir(fs, cur)
    THEN (IF names[k] = Dot THEN LookupLoop(fs, cur, TRUE, names, k + 1)
          ELSE IF names[k] = DotDot
          THEN LookupLoop(fs, SubSeq(cur, 1, Len(cur) - 1), TRUE, names, k + 1)
          ELSE [err |-> ENOENT, path |-> cur, gone |-> FALSE])
    ELSE IF ~Exists(fs, cur) THEN [err |-> ENOENT, path |-> cur, gone |-> FALSE]
    ELSE IF ~EntryAt(fs, cur).info THEN [err |-> EACCES, path |-> cur, gone |-> FALSE]
    ELSE IF ~EntryAt(fs, cur).isdir THEN [err |-> ENOTDIR, path |-> cur, gone |-> FALSE]
    ELSE LookupLoop(fs,
            IF names[k] = Dot THEN cur
            ELSE IF names[k] = DotDot THEN SubSeq(cur, 1, Len(cur) - 1)
            ELSE Append(cur, names[k]),
            held /\ names[k] \in {Dot, DotDot}, names, k + 1)

\* the walk along a path text: from the root if the text starts with "/"
\* and from the working directory otherwise
Resolve(fs, s) ==
    IF s = <<>> THEN [err |-> ENOENT, path |-> <<>>, gone |-> FALSE]
    ELSE LookupLoop(fs, IF s[1] = 47 THEN <<>> ELSE fs.cwd, s[1] # 47,
                    SplitPath(s, 1, <<>>), 1)

\* the path a path text names; the entry need not exist, and is a
\* directory if the text ends with "/"
Lookup(fs, s) ==
    LET l == Resolve(fs, s)
    IN IF l.err = NoErr /\ s[Len(s)] = 47 /\ ~l.gone /\ Exists(fs, l.path)
          /\ ~EntryAt(fs, l.path).isdir
       THEN [err |-> ENOTDIR, path |-> l.path, gone |-> FALSE]
       ELSE l

\* os.Stat
Stat(fs, s) ==
    LET l == Lookup(fs, s)
    IN IF l.err # NoErr THEN [err |-> l.err, entry |-> RootEntry]
       ELSE IF l.gone THEN [err |-> NoErr, entry |-> Unlinked(l.path)]
       ELSE IF ~Exists(fs, l.path) THEN [err |-> ENOENT, entry |-> RootEntry]
       ELSE IF ~EntryAt(fs, l.path).info THEN [err |-> EACCES, entry |-> RootEntry]
       ELSE [err |-> NoErr, entry |-> EntryAt(fs, l.path)]

\* os.Getwd succeeds while the working directory exists
CwdKnown(fs) == IsDir(fs, fs.cwd)

\* bytes of "chdir ", ": " and the errno texts
ChdirText == <<99, 104, 100, 105, 114, 32>>
ColonText == <<58, 32>>
ErrnoText(e) ==
    CASE e = ENOENT -> <<110, 111, 32, 115, 117, 99, 104, 32, 102, 105, 108,
                         101, 32, 111, 114, 32, 100, 105, 114, 101, 99, 116,
                         111, 114, 121>>
      [] e = ENOTDIR -> <<110, 111, 116, 32, 97, 32, 100, 105, 114, 101, 99,
                          116, 111, 114, 121>>
      [] e = EACCES -> <<112, 101, 114, 109, 105, 115, 115, 105, 111, 110, 32,
                         100, 101, 110, 105, 101, 100>>

\* changeDir: the outcome and the file system it leaves.  A failure of
\* os.Chdir is returned as a string, with no error.
changeDir(fs, as) ==
    IF Len(as) # 1 THEN [res |-> Ret(NullV, WrongNargs), fs |-> fs]
    ELSE IF as[1].t # "str"
    THEN [res |-> Ret(NullV, "argument must be string"), fs |-> fs]
    ELSE LET st == Stat(fs, as[1].s)
             e == IF st.err # NoErr THEN st.err
                  ELSE IF ~st.entry.isdir THEN ENOTDIR ELSE NoErr
         IN IF e = NoErr
            THEN [res |-> Ret(BoolV(TRUE), NoErr),
                  fs |-> [fs EXCEPT !.cwd = st.entry.path]]
            ELSE [res |-> Ret(StrV(ChdirText \o as[1].s \o ColonText \o ErrnoText(e)),
                              NoErr),
                  fs |-> fs]

\* os.Remove: the error, if any, of removing what the path text names.
\* It is the error of rmdir unless that is ENOTDIR: the root is busy, "."
\* is no name to remove and ".." names a directory that is not empty.
RemoveError(fs, s) ==
    LET l == Lookup(fs, s)
        names == SplitPath(s, 1, <<>>)
    IN IF l.err # NoErr THEN l.err
       ELSE IF names = <<>> THEN EBUSY
       ELSE IF names[Len(names)] = Dot THEN EINVAL
       ELSE IF names[Len(names)] = DotDot THEN ENOTEMPTY
       ELSE IF ~Exists(fs, l.path) THEN ENOENT
       ELSE IF \E e \in fs.files : Len(e.path) > Len(l.path)
                                   /\ SubSeq(e.path, 1, Len(l.path)) = l.path
       THEN ENOTEMPTY
       ELSE IF ~EntryAt(fs, l.path).info THEN EACCES
       ELSE NoErr

\* removeFile: the files before a failing argument are removed
RECURSIVE removeFile(_, _, _)
removeFile(fs, as, k) ==
    IF k > Len(as) THEN [res |-> Ret(NullV, NoErr), fs |-> fs]
    ELSE IF as[k].t # "str"
    THEN [res |-> Ret(NullV, "invalid arg passed, expected string"), fs |-> fs]
    ELSE IF RemoveError(fs, as[k].s) # NoErr
    THEN [res |-> Ret(NullV, "error removing file"), fs |-> fs]
    ELSE removeFile([fs EXCEPT !.files = @ \ {EntryAt(fs, Lookup(fs, as[k].s).path)}],
                    as, k + 1)

\* the error of the walk to the directory of the last name of a path text
ParentError(fs, s) ==
    LET names == SplitPath(s, 1, <<>>)
        d == LookupLoop(fs, IF s[1] = 47 THEN <<>> ELSE fs.cwd, s[1] # 47,
                        SubSeq(names, 1, Len(names) - 1), 1)
    IN IF d.err # NoErr THEN d.err
       ELSE IF d.gone THEN NoErr
       ELSE IF ~Exists(fs, d.path) THEN ENOENT
       ELSE IF ~EntryAt(fs, d.path).info THEN EACCES
       ELSE IF ~EntryAt(fs, d.path).isdir THEN ENOTDIR
       ELSE NoErr

\* os.OpenFile(O_APPEND|O_CREATE|O_WRONLY, 0644): the error or the path of
\* the file, and the file system with the file created if it was not there.
\* Once the directory of the last name is reached, a text that ends with
\* "/" names a directory, whether the name is there or not.
OpenAppend(fs, s) ==
    LET l == Resolve(fs, s)
    IN IF s = <<>> THEN [err |-> ENOENT, path |-> l.path, fs |-> fs]
       ELSE IF ParentError(fs, s) # NoErr
       THEN [err |-> ParentError(fs, s), path |-> l.path, fs |-> fs]
       ELSE IF s[Len(s)] = 47 THEN [err |-> EISDIR, path |-> l.path, fs |-> fs]
       ELSE IF l.err # NoErr THEN [err |-> l.err, path |-> l.path, fs |-> fs]
       ELSE IF l.gone THEN [err |-> EISDIR, path |-> l.path, fs |-> fs]
       ELSE IF Exists(fs, l.path)
       THEN [err |-> IF ~EntryAt(fs, l.path).info THEN EACCES
                     ELSE IF EntryAt(fs, l.path).isdir THEN EISDIR ELSE NoErr,
             path |-> l.path, fs |-> fs]
       ELSE [err |-> NoErr, path |-> l.path,
             fs |-> [fs EXCEPT !.files = @ \cup {Entry(l.path, FALSE, <<>>, 420, TRUE)}]]

\* f.Write(data) at the end of the file at path p
WriteFile(fs, p, data) ==
    [fs EXCEPT !.files =
        {IF e.path = p THEN [e EXCEPT !.content = @ \o data] ELSE e : e \in @}]

\* the loop of appendFile over args[1:]
RECURSIVE AppendFileLoop(_, _, _, _, _)
AppendFileLoop(fs, p, as, k, pos) ==
    IF k > Len(as) THEN [res |-> Ret(IntV(pos), NoErr), fs |-> fs]
    ELSE IF as[k].t # "data"
    THEN [res |-> Ret(NullV, "expected data; for arg (data)"), fs |-> fs]
    ELSE AppendFileLoop(WriteFile(fs, p, as[k].d), p, as, k + 1, pos + Len(as[k].d))

appendFile(fs, as) ==
    IF Len(as) < 2 THEN [res |-> Ret(NullV, WrongNargs), fs |-> fs]
    ELSE IF as[1].t # "str"
    THEN [res |-> Ret(NullV, "expected string; for arg 0 (filename)"), fs |-> fs]
    ELSE LET f == OpenAppend(fs, as[1].s)
         IN IF f.err # NoErr
            THEN [res |-> Ret(NullV, PathError("open", f.err)), fs |-> fs]
            ELSE AppendFileLoop(f.fs, f.path, as, 2,
                                Len(EntryAt(f.fs, f.path).content))

\* the loop of appendStreamFile
RECURSIVE AppendStreamLoop(_, _, _, _, _)
AppendStreamLoop(fun, fs, p, pos, calls) ==
    LET cargs == <<IntV(pos)>>
        r == Apply(fun, cargs)
    IN IF r.err # NoErr
       THEN [res |-> RetC(NilV, r.err, Append(calls, cargs)), fs |-> fs]
       ELSE IF r.val.t # "data"
       THEN [res |-> RetC(NilV, "stream function return something other then data",
                          Append(calls, cargs)),
             fs |-> fs]
       ELSE IF Len(r.val.d) = 0
       THEN [res |-> RetC(IntV(pos), NoErr, Append(calls, cargs)), fs |-> fs]
       ELSE AppendStreamLoop(fun, WriteFile(fs, p, r.val.d), p, pos + Len(r.val.d),
                             Append(calls, cargs))

appendStreamFile(fs, as) ==
    IF Len(as) < 2 THEN [res |-> Ret(NullV, WrongNargs), fs |-> fs]
    ELSE IF as[1].t # "str"
    THEN [res |-> Ret(NullV, "expected string; for arg 0 (filename)"), fs |-> fs]
    ELSE IF as[2].t # "fun"
    THEN [res |-> Ret(NullV, "expected function; for arg 1 (stream-fn)"), fs |-> fs]
    ELSE LET f == OpenAppend(fs, as[1].s)
         IN IF f.err # NoErr
            THEN [res |-> Ret(NullV, PathError("open", f.err)), fs |-> fs]
            ELSE AppendStreamLoop(as[2], f.fs, f.path,
                                  Len(EntryAt(f.fs, f.path).content), <<>>)

\* A visit is one call of the walk function: `info` tells whether it is
\* given a FileInfo (it is given none for an entry whose lstat failed).
\* The callback of walkDir never asks to skip a directory, so the visits
\* do not depend on what it returns until it makes the walk stop.
Visit(path, name, size, mode, isdir, info) ==
    [path |-> path, name |-> name, size |-> size, mode |-> mode,
     isdir |-> isdir, info |-> info]

VisitOf(e) ==
    Visit(PathText(e.path), IF e.path = <<>> THEN <<47>> ELSE e.path[Len(e.path)],
          Size(e), FileMode(e), e.isdir, e.info)

\* the entries of the directory at p
Children(fs, p) ==
    {e \in fs.files : Len(e.path) = Len(p) + 1 /\ SubSeq(e.path, 1, Len(p)) = p}

\* the order of names: bytewise
RECURSIVE NameLess(_, _, _)
NameLess(a, b, k) ==
    IF k > Len(a) THEN k <= Len(b)
    ELSE IF k > Len(b) THEN FALSE
    ELSE IF a[k] # b[k] THEN a[k] < b[k]
    ELSE NameLess(a, b, k + 1)

\* readDirNames sorts the names of a directory
RECURSIVE SortByName(_)
SortByName(es) ==
    IF es = {} THEN <<>>
    ELSE LET first == CHOOSE e \in es : \A f \in es \ {e} :
                        NameLess(e.path[Len(e.path)], f.path[Len(f.path)], 1)
         IN <<first>> \o SortByName(es \ {first})

\* the visits filepath.Walk makes from the entry e: e, then if it is a
\* directory what is below each of its entries in the order of names
RECURSIVE WalkTree(_, _)
RECURSIVE WalkChildren(_, _, _)
WalkTree(fs, e) ==
    IF ~e.info \/ ~e.isdir THEN <<VisitOf(e)>>
    ELSE <<VisitOf(e)>> \o WalkChildren(fs, SortByName(Children(fs, e.path)), 1)

WalkChildren(fs, es, k) ==
    IF k > Len(es) THEN <<>>
    ELSE WalkTree(fs, es[k]) \o WalkChildren(fs, es, k + 1)

\* filepath.Walk(dir, ...) from the working directory
WalkVisits(fs) == WalkTree(fs, EntryAt(fs, fs.cwd))

Abort == "abort"
GetwdFailed == PathError("getwd", ENOENT)
NoSuchFile == PathError("stat", ENOENT)
InvalidSeek == PathError("seek", EINVAL)
Diverges == "no return"

\* the hash handed to the callback of fs-walk
FileInfoHash(v) ==
    HashSet(HashSet(HashSet(HashSet(HashSet(HashV(<<>>),
        KeyPath, StrV(v.path)),
        KeyName, StrV(v.name)),
        KeySize, IntV(v.size)),
        KeyMode, IntOf(FALSE, v.mode)),
        KeyIsDir, BoolV(v.isdir))

\* filepath.Walk with the callback of walkDir: the error the walk returns
\* and the applications made
RECURSIVE WalkLoop(_, _, _, _)
WalkLoop(fun, visits, k, calls) ==
    IF k > Len(visits) THEN [err |-> NoErr, calls |-> calls]
    ELSE IF ~visits[k].info THEN [err |-> Panic, calls |-> calls]
    ELSE LET cargs == <<FileInfoHash(visits[k])>>
             r == Apply(fun, cargs)
         IN IF r.err # NoErr THEN [err |-> r.err, calls |-> Append(calls, cargs)]
            ELSE IF r.val = BoolV(TRUE)
            THEN [err |-> Abort, calls |-> Append(calls, cargs)]
            ELSE WalkLoop(fun, visits, k + 1, Append(calls, cargs))

\* variant: whatever ended the walk, the call reports success
walkDir_Swallow(fs, as) ==
    IF Len(as) # 1 THEN Ret(NullV, WrongNargs)
    ELSE IF as[1].t # "fun" THEN Ret(NullV, "argument must be a fun [fileInfo]")
    ELSE IF ~CwdKnown(fs) THEN Ret(NullV, GetwdFailed)
    ELSE LET w == WalkLoop(as[1], WalkVisits(fs), 1, <<>>)
         IN IF w.err = Panic THEN RetC(NullV, Panic, w.calls)
            ELSE RetC(BoolV(TRUE), NoErr, w.calls)

walkDir(fs, as) ==
    IF Len(as) # 1 THEN Ret(NullV, WrongNargs)
    ELSE IF as[1].t # "fun" THEN Ret(NullV, "argument must be a fun [fileInfo]")
    ELSE IF ~CwdKnown(fs) THEN Ret(NullV, GetwdFailed)
    ELSE LET w == WalkLoop(as[1], WalkVisits(fs), 1, <<>>)
         IN IF w.err = Panic THEN RetC(NullV, Panic, w.calls)
            ELSE IF w.err # NoErr /\ w.err # Abort
            THEN RetC(BoolV(FALSE), w.err, w.calls)
            ELSE RetC(BoolV(TRUE), w.err, w.calls)

\* the loop of readStreamFile: buf is the chunk buffer, which keeps the
\* bytes of earlier reads beyond the n bytes just read
RECURSIVE ReadLoop(_, _, _, _, _, _, _, _)
ReadLoop(fun, content, chunk, offset, max, pos, buf, calls) ==
    IF ~(pos < max) THEN RetC(IntV(pos - offset), NoErr, calls)
    ELSE LET left == Len(content) - pos
             n == IF left <= 0 THEN 0 ELSE IF chunk < left THEN chunk ELSE left
             eof == chunk > 0 /\ left <= 0
             buf1 == [j \in 1..chunk |-> IF j <= n THEN content[pos + j] ELSE buf[j]]
             cargs == <<IntV(pos), DataC(SubSeq(buf1, 1, n), SubSeq(buf1, n + 1, chunk))>>
             r == Apply(fun, cargs)
         IN IF n > 0
            THEN IF r.err # NoErr THEN RetC(NilV, r.err, Append(calls, cargs))
                 ELSE IF r.val = BoolV(TRUE)
                 THEN RetC(IntV(pos - offset), NoErr, Append(calls, cargs))
                 ELSE ReadLoop(fun, content, chunk, offset, max, pos + n, buf1,
                               Append(calls, cargs))
            ELSE IF eof THEN RetC(IntV(pos - offset), NoErr, calls)
            ELSE RetC(NullV, Diverges, calls)

readStreamFile(fs, as) ==
    IF Len(as) < 3 THEN Ret(NullV, WrongNargs)
    ELSE IF as[1].t # "str" THEN Ret(NullV, "expected string; for arg 0 (filename)")
    ELSE IF as[2].t # "fun" THEN Ret(NullV, "expected function; for arg 1 (stream-fn)")
    ELSE IF as[3].t # "int" THEN Ret(NullV, "expected int; for arg 2 (chunk-size)")
    ELSE IF Len(as) > 3 /\ as[4].t # "int"
    THEN Ret(NullV, "expected int; for arg 3 (offset)")
    ELSE IF Len(as) > 4 /\ as[5].t # "int"
    THEN Ret(NullV, "expected int; for arg 4 (max)")
    ELSE LET chunk == as[3].n
             offset == IF Len(as) > 3 THEN as[4].n ELSE 0
             max0 == IF Len(as) > 4 THEN as[5].n ELSE 0
             stat == Stat(fs, as[1].s)
             size == Size(stat.entry)
             max == IF size < offset + max0 \/ max0 = 0 THEN size - offset ELSE max0
         IN IF stat.err # NoErr THEN Ret(NullV, PathError("stat", stat.err))
            ELSE IF offset < 0 THEN Ret(NullV, InvalidSeek)
            ELSE IF chunk < 0 THEN Ret(NullV, Panic)
            ELSE IF stat.entry.isdir
            THEN (IF ~(offset < max) THEN Ret(IntV(0), NoErr)
                  ELSE IF chunk = 0 THEN Ret(NullV, Diverges)
                  ELSE Ret(NullV, PathError("read", EISDIR)))
            ELSE ReadLoop(as[2], stat.entry.content, chunk, offset, max, offset,
                          [j \in 1..chunk |-> 0], <<>>)

\* --------------------------------------------------------------- slice
SliceFunction(as) ==
    IF Len(as) # 3 THEN Ret(NullV, WrongNargs)
    ELSE IF as[2].t \notin {"int", "char"}
    THEN Ret(NullV, "Second argument of slice must be integer")
    ELSE IF as[3].t \notin {"int", "char"}
    THEN Ret(NullV, "Third argument of slice must be integer")
    ELSE LET start == IF as[2].t = "int" THEN as[2].n ELSE as[2].c
             end == IF as[3].t = "int" THEN as[3].n ELSE as[3].c
             t == as[1]
         IN CASE t.t = "array" ->
                    IF ~GoSliceOk(t.a, t.spare, start, end) THEN Ret(NullV, Panic)
                    ELSE Ret(ArrC(GoSliceElems(t.a, t.spare, start, end),
                                  GoSliceSpare(t.a, t.spare, start, end)), NoErr)
              [] t.t = "str" ->
                    IF ~GoSliceOk(t.s, <<>>, start, end) THEN Ret(NullV, Panic)
                    ELSE Ret(StrV(GoSliceElems(t.s, <<>>, start, end)), NoErr)
              [] t.t = "data" ->
                    IF ~GoSliceOk(t.d, t.spare, start, end) THEN Ret(NullV, Panic)
                    ELSE Ret(DataC(GoSliceElems(t.d, t.spare, start, end),
                                   GoSliceSpare(t.d, t.spare, start, end)), NoErr)
              [] OTHER -> Ret(NullV, "First argument of slice must be of type - array, string, data")

OddArguments == "hash requires even number of arguments"

\* MakeHash: the arguments are keys and values in turn
RECURSIVE MakeHashLoop(_, _, _)
MakeHashLoop(as, i, hash) ==
    IF i > Len(as) THEN Ret(hash, NoErr)
    ELSE IF ~Hashable(as[i]) THEN Ret(NullV, CannotHash)
    ELSE MakeHashLoop(as, i + 2, HashSet(hash, as[i], as[i + 1]))

MakeHash(as) ==
    IF Len(as) % 2 # 0 THEN Ret(NullV, OddArguments)
    ELSE MakeHashLoop(as, 1, HashV(<<>>))

ConstructorFunction(name, as) ==
    CASE name = "array" -> Ret(ArrV(as), NoErr)
      [] name = "list" -> Ret(MakeList(as), NoErr)
      [] name = "hash" -> MakeHash(as)
      [] OTHER -> Ret(NullV, "invalid constructor")

\* ------------------------------------------------------------ input sets
RECURSIVE SeqsUpTo(_, _)
SeqsUpTo(S, n) ==
    IF n = 0 THEN {<<>>}
    ELSE LET P == SeqsUpTo(S, n - 1)
         IN P \cup {Append(s, x) : s \in {q \in P : Len(q) = n - 1}, x \in S}

\* chains of at most n cons cells over S that end in a member of Ends
RECURSIVE Chains(_, _, _)
Chains(S, Ends, n) ==
    IF n = 0 THEN Ends
    ELSE LET P == Chains(S, Ends, n - 1)
         IN Ends \cup {Cons(x, c) : x \in S, c \in P}

ConstructorNames == {"list", "array", "hash"}
Scalars == {IntV(1), IntV(2), StrV(<<97>>)}
ProperLists == Chains(Scalars, {NullV}, MaxLen)
DottedLists == Chains(Scalars, {IntV(3)}, MaxLen) \ {IntV(3)}
NonLists == DottedLists \cup Scalars \cup {ArrV(<<IntV(1)>>), BoolV(TRUE)}
Arrays == {ArrV(a) : a \in SeqsUpTo(Scalars, MaxLen)}

Hashes == {HashV(<<>>), HashV(<<<<IntV(1), IntV(7)>>>>),
           HashV(<<<<StrV(<<97>>), IntV(7)>>, <<IntV(1), BoolV(TRUE)>>>>)}

FoldFuns == {FunV("cons"), FunV("+"), FunV("-"), FunV("len")}
FoldInits == {IntV(0), NullV}
Buffers == {DataV(d) : d \in SeqsUpTo({7, 9}, MaxData)}
                \cup {DataC(<<7, 9>>, <<5>>), DataC(<<>>, <<5, 5>>)}
ChunkArgs == {<<>>, <<StrV(<<97>>)>>} \cup {<<IntV(k)>> : k \in -1..MaxChunk}

FoldlInputs ==
    {<<q, f, i>> : q \in Arrays \cup ProperLists \cup DottedLists,
                   f \in FoldFuns, i \in FoldInits}
    \cup {<<d, f, IntV(0)>> \o c : d \in Buffers, f \in {FunV("cons"), FunV("len")},
                                   c \in ChunkArgs}
    \cup {<<h, f, i>> : h \in Hashes, f \in FoldFuns, i \in FoldInits}
    \cup {<<ArrV(<<IntV(1)>>), IntV(1), IntV(0)>>, <<ArrV(<<IntV(1)>>), FunV("cons")>>,
          <<IntV(1), FunV("cons"), IntV(0)>>}

MapElems == {IntV(1), StrV(<<97>>), ArrV(<<IntV(2)>>), ArrV(<<>>), PairV(IntV(1), NullV)}
MapFuns == {FunV("first"), FunV("len"), FunV("cons"), FunV("+")}
MapInputs ==
    {<<f, q>> : f \in MapFuns,
                q \in {ArrV(a) : a \in SeqsUpTo(MapElems, MaxLen)}
                      \cup Chains(MapElems, {NullV, IntV(3)}, MaxLen)}
    \cup {<<f, h>> : f \in MapFuns, h \in Hashes}
    \cup {<<IntV(1), ArrV(<<IntV(1)>>)>>, <<FunV("len")>>}

SliceIdx == -1..(MaxLen + MaxSpare + 1)
SliceSeqs ==
    {ArrC(a, sp) : a \in SeqsUpTo({IntV(1), IntV(2)}, MaxLen),
                   sp \in SeqsUpTo({IntV(9)}, MaxSpare)}
    \cup {StrV(z) : z \in SeqsUpTo({97, 98}, MaxLen)}
    \cup {DataC(d, sp) : d \in SeqsUpTo({7}, MaxLen), sp \in SeqsUpTo({0}, MaxSpare)}
    \cup {ArrV(<<IntV(1), IntV(2), IntV(3)>>), NullV}
SliceInputs ==
    {<<q, IntV(i), IntV(j)>> : q \in SliceSeqs, i \in SliceIdx, j \in SliceIdx}
    \cup {<<ArrV(<<IntV(1)>>), StrV(<<97>>), IntV(1)>>,
          <<ArrV(<<IntV(1)>>), IntV(0), StrV(<<97>>)>>,
          <<ArrV(<<IntV(1)>>), IntV(0)>>,
          <<ArrV(<<IntV(1), IntV(2), IntV(3)>>), CharV(1), IntV(2)>>,
          <<ArrV(<<IntV(1), IntV(2), IntV(3)>>), IntV(1), CharV(2)>>,
          <<StrV(<<97, 98>>), CharV(0), CharV(3)>>}

Operands ==
    {NullV, StrV(<<>>), StrV(<<97>>), ArrV(<<>>), ArrV(<<IntV(1)>>),
     ArrC(<<IntV(2)>>, <<IntV(9)>>), DataV(<<>>), DataV(<<7>>), IntV(5),
     PairV(IntV(1), NullV), PairV(IntV(1), IntV(2))}
JoinInputs ==
    {a \in SeqsUpTo(Operands, MaxArgs) : Len(a) >= 1}
    \cup {<<ArrV(<<>>), NullV, ArrV(<<IntV(1)>>), StrV(<<>>), ArrV(<<IntV(2)>>)>>}

Numbers == {IntV(0), IntV(1), IntV(3), IntV(6), StrV(<<97>>)}
ReduceInputs == SeqsUpTo(Numbers, MaxArgs)

CodecInts == {0, 1, -2, 258, 1000000007, -1000000007, 2147483647, -2147483647}
\* magnitudes beyond 31 bits: 2^31, 2^31 + 1, 0x0102030405060708, 2^63 - 1
\* and 2^63
WideMagnitudes ==
    {Shl(<<1>>, 31), <<1>> \o Shl(<<1>>, 30),
     Trim(SubSeq(BytesBits(<<8, 7, 6, 5, 4, 3, 2, 1>>), 1, 64)),
     SubSeq([j \in 1..63 |-> 1], 1, 63)}
\* Ints beyond 32 bits, down to the smallest and up to the largest int64
WideInts ==
    {IntW(neg, SubSeq(b, 1, Len(b))) : neg \in BOOLEAN, b \in WideMagnitudes}
    \cup {IntW(TRUE, SubSeq(Shl(<<1>>, 63), 1, 64))}
CodecIntValues == {IntV(x) : x \in CodecInts} \cup WideInts

CodecScalars ==
    {IntV(1), IntV(-2), IntV(258), BoolV(TRUE), BoolV(FALSE), StrV(<<97, 98>>),
     DataV(<<7>>)}
CodecOperands ==
    CodecScalars
    \cup {ArrV(<<>>), ArrV(<<IntV(1), BoolV(TRUE)>>),
          ArrV(<<ArrV(<<IntV(258)>>), StrV(<<97>>)>>),
          ArrV(<<IntV(1), NullV>>), ArrV(<<ArrV(<<FunV("cons")>>)>>),
          PairV(IntV(1), IntV(-2)), PairV(IntV(1), NullV),
          PairV(BoolV(TRUE), PairV(IntV(258), NullV)),
          PairV(SymV(1), IntV(1)), PairV(IntV(1), HashV(<<>>)),
          FloatV(3), ArrV(<<FloatV(-3)>>),
          CharV(97), ArrV(<<CharV(233), IntV(1)>>),
          NullV, FunV("cons"), SymV(1), HashV(<<>>)}
    \cup WideInts
MakeDataInputs == SeqsUpTo(CodecOperands, MaxCodecArgs)

ConvertNames ==
    {"cvert-str", "cvert-int64", "cvert-int32", "cvert-float32", "cvert-float64"}
Halves == {0, 1, -3, 4, MaxHalf, -MaxHalf}
\* "15", "-1", "+5", "1.5", "-.5", "5.", "", "a", "1a", "-", "1.5.", ".",
\* "1e1", "inf", "nan", "1.25", "0x1p-2", ".1", "1e39"
Numerals ==
    {<<49, 53>>, <<45, 49>>, <<43, 53>>, <<49, 46, 53>>, <<45, 46, 53>>,
     <<53, 46>>, <<>>, <<97>>, <<49, 97>>, <<45>>, <<49, 46, 53, 46>>, <<46>>,
     <<49, 101, 49>>, <<105, 110, 102>>, <<110, 97, 110>>, <<49, 46, 50, 53>>,
     <<48, 120, 49, 112, 45, 50>>, <<46, 49>>, <<49, 101, 51, 57>>}
ShortBuffers == {<<>>, <<1, 0, 0>>}
Int64Buffers ==
    {Int64LE(x) : x \in CodecInts}
    \cup {Int64LEWide(v) : v \in WideInts}
    \cup {Int64LE(1) \o <<9>>}
    \cup {MakeDataFunction("make-data", <<IntV(x), BoolV(TRUE)>>).val.d : x \in {-2, 258}}
Unconvertible == {NullV, FunV("cons"), SymV(1), HashV(<<>>)}
ConvertOperands(name) ==
    {BoolV(TRUE), BoolV(FALSE), IntV(5), IntV(-2), NullV, FunV("cons")}
    \cup {StrV(s) : s \in Numerals}
    \cup {DataV(d) : d \in ShortBuffers}
    \cup (CASE name = "cvert-str" -> {DataV(<<104, 105>>)}
            [] name = "cvert-int64" ->
                 {DataV(d) : d \in Int64Buffers}
                 \cup {MakeDataFunction("make-data", <<x>>).val : x \in CodecIntValues}
            [] name = "cvert-int32" ->
                 {DataV(d) : d \in Int64Buffers \cup {<<0, 0, 0, 128>>}}
            [] name = "cvert-float32" ->
                 {DataV(Float32LE(h)) : h \in Halves}
                 \cup {DataV(Float32LE(3) \o <<9>>)}
            [] name = "cvert-float64" ->
                 {DataV(Float64LE(h)) : h \in Halves}
                 \cup {DataV(Float64LE(3) \o <<9>>)})
    \cup (IF name = "cvert-str" THEN {}
          ELSE {FloatV(h) : h \in Halves} \cup {SymV(1), HashV(<<>>)})
ConvertInputs(name) == SeqsUpTo(ConvertOperands(name), MaxCodecArgs)

\* the engine of a call made with nothing in flight, and engines in the
\* middle of a program
IdleEngine == Engine(0, <<>>, <<>>, <<>>)
CallerEngines ==
    {IdleEngine,
     Engine(2, <<IntV(7), IntV(1)>>, <<>>, <<PushInstr(IntV(7)), PushInstr(IntV(1))>>),
     Engine(1, <<IntV(7)>>, <<4>>, <<PushInstr(IntV(7)), GetInstr(SymV(1))>>)}
Expressions ==
    {IntV(1), StrV(<<97>>), BoolV(TRUE), NullV, SymV(1),
     ArrV(<<>>), ArrV(<<IntV(1), IntV(2)>>), ArrV(<<IntV(1), SymV(1)>>),
     ArrV(<<ArrV(<<IntV(1)>>), IntV(2)>>), ArrV(<<IntV(1), PairV(IntV(1), IntV(2))>>),
     PairV(IntV(1), IntV(2)), FunV("cons")}
EvalInputs == SeqsUpTo(Expressions, 2)

ApplyInputs ==
    {<<f, a>> : f \in {FunV("cons"), FunV("first"), FunV("len"), FunV("+"), IntV(1)},
                a \in {ArrV(<<>>), ArrV(<<IntV(1), IntV(2)>>), ArrV(<<ArrV(<<>>)>>),
                       ArrV(<<StrV(<<97>>)>>), ArrV(<<IntV(1), StrV(<<97>>)>>),
                       NullV, PairV(IntV(1), PairV(IntV(2), NullV)),
                       PairV(IntV(1), IntV(2)), PairV(StrV(<<97>>), NullV), IntV(1)}}
    \cup {<<>>, <<FunV("cons")>>, <<FunV("cons"), NullV, NullV>>}

Closures == {ClosureV(k, n) : k \in {"true", "error"}, n \in 0..MaxData}
Callbacks == Closures \cup {FunV("cons"), FunV("len"), FunV("first")}

\* the tree the file-system calls start from: a directory "d" with the
\* files "a" and "b", an entry "c" whose lstat fails and a directory "e"
\* with the file "f"
NameA == <<97>>
NameB == <<98>>
NameC == <<99>>
NameD == <<100>>
NameE == <<101>>
NameF == <<102>>
Tree ==
    {Entry(<<NameD>>, TRUE, <<>>, 493, TRUE),
     Entry(<<NameD, NameA>>, FALSE, <<10>>, 420, TRUE),
     Entry(<<NameD, NameB>>, FALSE, <<10, 11, 12>>, 420, TRUE),
     Entry(<<NameD, NameC>>, FALSE, <<>>, 0, FALSE),
     Entry(<<NameD, NameE>>, TRUE, <<>>, 493, TRUE),
     Entry(<<NameD, NameE, NameF>>, FALSE, <<20, 21>>, 420, TRUE)}

\* the sets of entries in which every entry has its directory
Trees ==
    {t \in SUBSET Tree :
        \A e \in t : Len(e.path) > 1 =>
            \E d \in t : d.isdir /\ d.path = SubSeq(e.path, 1, Len(e.path) - 1)}

WalkArgs == {<<f>> : f \in Callbacks \cup {IntV(1)}} \cup {<<>>}
WalkFileSystems ==
    {FileSystem(<<NameD>>, t) : t \in Trees}
    \cup {FileSystem(<<NameD, NameE>>, Tree)}

FileContents == {<<>>, <<10, 11, 12>>, [j \in 1..MaxData |-> 20 + j]}
ReadFileSystems ==
    {FileSystem(<<>>, {Entry(<<NameF>>, FALSE, c, 420, TRUE)}) : c \in FileContents}
    \cup {NoFiles}
ChunkSizes == {IntV(n) : n \in -1..3}
Offsets == {IntV(n) : n \in {-1, 0, 1, 2, MaxData + 1}}
Windows == {IntV(n) : n \in {0, 1, 2, 3, MaxData + 2}}
FileName == StrV(NameF)
ReadArgs ==
    {<<FileName, f, c>> : f \in Callbacks, c \in ChunkSizes}
    \cup {<<FileName, f, c, o>> : f \in Callbacks, c \in ChunkSizes, o \in Offsets}
    \cup {<<FileName, f, c, o, m>> :
            f \in Callbacks, c \in ChunkSizes, o \in Offsets, m \in Windows}
    \cup {<<>>, <<FileName, FunV("cons")>>, <<IntV(1), FunV("cons"), IntV(1)>>,
          <<FileName, IntV(1), IntV(1)>>, <<FileName, FunV("cons"), NullV>>,
          <<FileName, FunV("cons"), IntV(1), NullV>>,
          <<FileName, FunV("cons"), IntV(1), IntV(0), NullV>>}

FirstInputs ==
    {<<v>> : v \in {ArrV(<<>>), ArrV(<<IntV(1)>>), ArrV(<<IntV(2), IntV(1)>>),
                    ArrC(<<>>, <<IntV(1)>>), PairV(IntV(1), NullV), NullV, IntV(1),
                    StrV(<<97>>)}}
    \cup {<<>>, <<ArrV(<<>>), ArrV(<<>>)>>}
SgetInputs ==
    {<<x, i>> : x \in {StrV(<<>>), StrV(<<97, 98>>), IntV(1)},
                i \in {IntV(n) : n \in -1..MaxLen} \cup {CharV(1), CharV(98), NullV}}
    \cup {<<>>, <<StrV(<<97>>)>>, <<StrV(<<97>>), IntV(0), IntV(0)>>}
HashNames == {"hget", "hset!", "hdel!"}
HashKeys == {IntV(1), IntV(2), StrV(<<97>>), NullV}
HashInputs ==
    {<<h, k>> : h \in Hashes \cup {IntV(1)}, k \in HashKeys}
    \cup {<<h, k, v>> : h \in Hashes \cup {IntV(1)}, k \in HashKeys,
                        v \in {IntV(9), NullV}}
    \cup {<<>>, <<HashV(<<>>)>>, <<HashV(<<>>), IntV(1), IntV(1), IntV(1)>>}
ArrayAccessNames == {"aget", "aset!"}
ArrayAccessInputs ==
    {<<a, i>> : a \in {ArrV(<<>>), ArrC(<<IntV(1), IntV(2)>>, <<IntV(3)>>), NullV},
                i \in {IntV(-1), IntV(0), IntV(1), IntV(2), CharV(1), StrV(<<97>>)}}
    \cup {<<a, i, IntV(9)>> :
            a \in {ArrV(<<>>), ArrC(<<IntV(1), IntV(2)>>, <<IntV(3)>>), NullV},
            i \in {IntV(-1), IntV(0), IntV(1), IntV(2), CharV(1), StrV(<<97>>)}}
    \cup {<<>>, <<ArrV(<<IntV(1)>>)>>,
          <<ArrV(<<IntV(1)>>), IntV(0), IntV(9), IntV(9)>>}

MakeArrayInputs ==
    {<<IntV(n)>> : n \in -1..MaxLen}
    \cup {<<IntV(n), v>> : n \in -1..MaxLen, v \in {IntV(0), NullV, ArrV(<<>>)}}
    \cup {<<>>, <<NullV>>, <<IntV(1), IntV(0), IntV(0)>>, <<StrV(<<97>>), IntV(0)>>}

NumericNames == {"+", "-", "*", "/"}
BitwiseNames == {"bit-and", "bit-or", "bit-xor"}

\* path texts: relative, absolute, through "." and "..", a file, a missing
\* name, an entry whose lstat fails, a file used as a directory or named
\* as one
PathTexts ==
    {NameA, NameE, NameF, Dot, DotDot, <<47>>, <<47>> \o NameD, NameC,
     NameA \o <<47>> \o NameB, NameA \o <<47>>,
     <<47>> \o NameD \o <<47>> \o NameE, <<>>}
ChangeDirArgs == {<<StrV(p)>> : p \in PathTexts} \cup {<<>>, <<IntV(1)>>}
RemoveArgs ==
    {<<StrV(p)>> : p \in PathTexts}
    \cup {<<>>, <<StrV(NameA), StrV(NameB)>>, <<StrV(NameA), StrV(NameA)>>,
          <<StrV(NameA), IntV(1)>>, <<StrV(NameF), StrV(DotDot)>>,
          <<StrV(NameF), StrV(<<47>> \o NameD \o <<47>> \o NameE)>>}
AppendFileArgs ==
    {<<StrV(p), DataV(d)>> :
        p \in {NameA, NameF, NameE, NameC, Dot, NameA \o <<47>>, NameF \o <<47>>},
        d \in {<<>>, <<7>>}}
    \cup {<<>>, <<StrV(NameA)>>, <<IntV(1), DataV(<<7>>)>>,
          <<StrV(NameA), DataV(<<7>>), DataV(<<8, 9>>)>>,
          <<StrV(NameA), DataV(<<7>>), IntV(1), DataV(<<8>>)>>,
          <<StrV(<<>>), DataV(<<7>>)>>}
StreamClosures == {ClosureV("data", n) : n \in 0..3} \cup {ClosureV("error", n) : n \in {0, 1}}
AppendStreamArgs ==
    {<<StrV(p), f>> : p \in {NameA, NameF, NameE, NameA \o <<47>>},
                      f \in StreamClosures \cup {FunV("cons"), FunV("len")}}
    \cup {<<>>, <<StrV(NameA)>>, <<IntV(1), FunV("len")>>, <<StrV(NameA), IntV(1)>>}

\* the file-system builtins and the arguments of a first call
FileNames ==
    {"fs-chdir", "fs-remove-file", "fs-append-file", "fs-append-file-s",
     "fs-walk", "fs-read-file-s"}
FileArgs(name) ==
    CASE name = "fs-chdir" -> ChangeDirArgs
      [] name = "fs-remove-file" -> RemoveArgs
      [] name = "fs-append-file" -> AppendFileArgs
      [] name = "fs-append-file-s" -> AppendStreamArgs
      [] name = "fs-walk" -> WalkArgs
      [] name = "fs-read-file-s" -> ReadArgs

\* the arguments of a call that follows another file-system call
LaterArgs(name) ==
    CASE name = "fs-read-file-s" ->
            {<<StrV(p), f, IntV(c)>> :
                p \in {NameA, NameF, NameE, Dot},
                f \in {FunV("len"), ClosureV("true", 1), ClosureV("error", 1)},
                c \in {1, 2}}
      [] OTHER -> FileArgs(name)

AppendNames == {"append", "?append"}
ConcatNames == {"concat", "?concat"}

\* ----------------------------------------------------------- the machine
\* A run is one call: the builtin `op` is pending on `args` (pc = "call"),
\* then it has returned `res` (pc = "done").
Init ==
    /\ pc = "call"
    /\ res = Ret(NullV, NoErr)
    /\ \/ op = "ListToArray" /\ args \in {<<e>> : e \in ProperLists \cup NonLists}
       \/ op \in ConstructorNames /\ args \in SeqsUpTo(Scalars, MaxLen)
       \/ op = "hash" /\ args \in {<<NullV, IntV(1)>>}
       \/ op = "foldl" /\ args \in FoldlInputs
       \/ op = "map" /\ args \in MapInputs
       \/ op = "slice" /\ args \in SliceInputs
       \/ op \in AppendNames \cup ConcatNames /\ args \in JoinInputs
       \/ op \in NumericNames \cup BitwiseNames /\ args \in ReduceInputs
       \/ op = "make-data" /\ args \in MakeDataInputs
       \/ op \in ConvertNames /\ args \in ConvertInputs(op)
       \/ op = "eval" /\ args \in EvalInputs
       \/ op = "apply" /\ args \in ApplyInputs
       \/ op \in {"first", "car"} /\ args \in FirstInputs
       \/ op = "sget" /\ args \in SgetInputs
       \/ op \in HashNames /\ args \in HashInputs
       \/ op = "make-array" /\ args \in MakeArrayInputs
       \/ op \in ArrayAccessNames /\ args \in ArrayAccessInputs
       \/ op \in FileNames /\ args \in FileArgs(op)
    /\ env \in (IF op = "eval" THEN CallerEngines ELSE {IdleEngine})
    /\ fsys \in (CASE op = "fs-walk" -> WalkFileSystems
                   [] op = "fs-read-file-s" -> ReadFileSystems
                   [] op \in FileNames -> {FileSystem(<<NameD>>, Tree)}
                   [] OTHER -> {NoFiles})
    /\ newenv = NoEngine
    /\ store = <<>>
    /\ arrs = <<>>
    /\ ncalls = 1

Return(r) ==
    /\ res' = r
    /\ pc' = "done"
    /\ UNCHANGED <<op, args, env, newenv, fsys, store, arrs, ncalls>>

CallListToArray == pc = "call" /\ op = "ListToArray" /\ Return(ListToArray(args[1]))

CallConstructor ==
    pc = "call" /\ op \in ConstructorNames /\ Return(ConstructorFunction(op, args))

CallFoldl == pc = "call" /\ op = "foldl" /\ Return(FoldLFunction(args))

CallMap == pc = "call" /\ op = "map" /\ Return(MapFunction(args))

CallSlice == pc = "call" /\ op = "slice" /\ Return(SliceFunction(args))

CallAppend ==
    /\ pc = "call"
    /\ op \in AppendNames
    /\ res' = AppendFunction(op, args)
    /\ args' = AppendArgs(op, args)
    /\ pc' = "done"
    /\ UNCHANGED <<op, env, newenv, fsys, store, arrs, ncalls>>

CallConcat ==
    /\ pc = "call"
    /\ op \in ConcatNames
    /\ res' = ConcatFunction(op, args)
    /\ args' = ConcatArgs(op, args)
    /\ pc' = "done"
    /\ UNCHANGED <<op, env, newenv, fsys, store, arrs, ncalls>>

CallNumeric == pc = "call" /\ op \in NumericNames /\ Return(NumericFunction(op, args))

CallBitwise == pc = "call" /\ op \in BitwiseNames /\ Return(BitwiseFunction(op, args))

CallMakeData == pc = "call" /\ op = "make-data" /\ Return(MakeDataFunction(op, args))

CallConvert == pc = "call" /\ op \in ConvertNames /\ Return(ConvertFunction(op, args))

CallEval ==
    /\ pc = "call"
    /\ op = "eval"
    /\ res' = EvalFunction(env, args).res
    /\ env' = EvalFunction(env, args).env
    /\ newenv' = EvalFunction(env, args).newenv
    /\ pc' = "done"
    /\ UNCHANGED <<op, args, fsys, store, arrs, ncalls>>

CallApply == pc = "call" /\ op = "apply" /\ Return(ApplyFunction(args))

CallFirst == pc = "call" /\ op \in {"first", "car"} /\ Return(FirstFunction(args))

CallSget == pc = "call" /\ op = "sget" /\ Return(SgetFunction(args))

\* the hash is shared by reference: the caller's first argument is the
\* hash the call changed
CallHashAccess ==
    /\ pc = "call"
    /\ op \in HashNames
    /\ res' = HashAccessFunction(op, args).res
    /\ args' = IF Len(args) \in 2..3
               THEN [args EXCEPT ![1] = HashAccessFunction(op, args).hash]
               ELSE args
    /\ pc' = "done"
    /\ UNCHANGED <<op, env, newenv, fsys, store, arrs, ncalls>>

CallArrayAccess ==
    /\ pc = "call"
    /\ op \in ArrayAccessNames
    /\ res' = ArrayAccessFunction(op, args).res
    /\ args' = IF Len(args) >= 2
               THEN [args EXCEPT ![1] = ArrayAccessFunction(op, args).arr]
               ELSE args
    /\ pc' = "done"
    /\ UNCHANGED <<op, env, newenv, fsys, store, arrs, ncalls>>

CallMakeArray == pc = "call" /\ op = "make-array" /\ Return(MakeArrayFunction(args))

CallWalkDir == pc = "call" /\ op = "fs-walk" /\ Return(walkDir(fsys, args))

\* a call of fs-read-file-s returns, or loops for ever reading nothing
CallReadStreamFile ==
    /\ pc = "call"
    /\ op = "fs-read-file-s"
    /\ IF readStreamFile(fsys, args).err = Diverges
       THEN pc' = "diverged"
            /\ UNCHANGED <<op, args, res, env, newenv, fsys, store, arrs, ncalls>>
       ELSE Return(readStreamFile(fsys, args))

\* a call that changes the files returns
ReturnFiles(r) ==
    /\ res' = r.res
    /\ fsys' = r.fs
    /\ pc' = "done"
    /\ UNCHANGED <<op, args, env, newenv, store, arrs, ncalls>>

CallChangeDir == pc = "call" /\ op = "fs-chdir" /\ ReturnFiles(changeDir(fsys, args))

CallRemoveFile ==
    pc = "call" /\ op = "fs-remove-file" /\ ReturnFiles(removeFile(fsys, args, 1))

CallAppendFile ==
    pc = "call" /\ op = "fs-append-file" /\ ReturnFiles(appendFile(fsys, args))

CallAppendStreamFile ==
    pc = "call" /\ op = "fs-append-file-s" /\ ReturnFiles(appendStreamFile(fsys, args))

\* the program goes on to another file-system call on the files the
\* earlier calls left
NextFileCall ==
    /\ pc = "done"
    /\ op \in FileNames
    /\ ncalls < MaxCalls
    /\ \E name \in FileNames : \E as \in LaterArgs(name) :
          /\ op' = name
          /\ args' = as
    /\ pc' = "call"
    /\ res' = Ret(NullV, NoErr)
    /\ ncalls' = ncalls + 1
    /\ UNCHANGED <<env, newenv, fsys, store, arrs>>

Next ==
    \/ CallListToArray
    \/ CallConstructor
    \/ CallFoldl
    \/ CallMap
    \/ CallSlice
    \/ CallAppend
    \/ CallConcat
    \/ CallNumeric
    \/ CallBitwise
    \/ CallMakeData
    \/ CallConvert
    \/ CallEval
    \/ CallApply
    \/ CallFirst
    \/ CallSget
    \/ CallHashAccess
    \/ CallMakeArray
    \/ CallArrayAccess
    \/ CallWalkDir
    \/ CallReadStreamFile
    \/ CallChangeDir
    \/ CallRemoveFile
    \/ CallAppendFile
    \/ CallAppendStreamFile
    \/ NextFileCall

Spec == Init /\ [][Next]_vars

\* A program that keeps the results of its calls: it starts with one array
\* of its own backing store and calls slice, rest, append, concat and aset!
\* on the arrays it holds, keeping every result.
InitArrays ==
    /\ pc = "heap"
    /\ op = "array"
    /\ args = <<>>
    /\ res = Ret(NullV, NoErr)
    /\ env = IdleEngine
    /\ newenv = NoEngine
    /\ fsys = NoFiles
    /\ ncalls = 0
    /\ \E n \in 0..MaxLen :
          /\ store = <<[j \in 1..n |-> IntV(j)]>>
          /\ arrs = <<Hdr(1, 0, n, n)>>

\* the call name(as) returned h, leaving the heap st
Keep(name, as, st, h) ==
    /\ pc = "heap"
    /\ Len(arrs) < MaxArrs
    /\ op' = name
    /\ args' = as
    /\ res' = Ret(h, NoErr)
    /\ store' = st
    /\ arrs' = Append(arrs, h)
    /\ UNCHANGED <<pc, env, newenv, fsys, ncalls>>

Held == {arrs[i] : i \in {j \in 1..Len(arrs) : arrs[j].t = "array"}}
Elements == Held \cup {IntV(9), NullV}

HeapSliceCall ==
    \E h \in Held : \E start, end \in 0..h.cap :
        /\ HeapSliceOk(h, start, end)
        /\ Keep("slice", <<h, IntV(start), IntV(end)>>, store, HeapSlice(h, start, end))

HeapRestCall ==
    \E h \in Held : Keep("rest", <<h>>, store, HeapRest(h))

HeapAppendCall ==
    \E name \in AppendNames : \E h \in Held : \E x \in Elements :
        Keep(name, <<h, x>>,
             HeapAppendFunction(name, store, <<h, x>>).store,
             HeapAppendFunction(name, store, <<h, x>>).hdr)

HeapConcatCall ==
    \E name \in ConcatNames : \E h \in Held : \E g \in Held :
        Keep(name, <<h, g>>,
             HeapConcatFunction(name, store, <<h, g>>).store,
             HeapConcatFunction(name, store, <<h, g>>).hdr)

\* aset! returns Null
HeapAsetCall ==
    \E h \in Held : \E i \in 0..(h.len - 1) : \E x \in {IntV(9)} :
        Keep("aset!", <<h, IntV(i), x>>, HeapAset(store, h, i, x), NullV)

NextArrays ==
    \/ HeapAsetCall
    \/ HeapSliceCall
    \/ HeapRestCall
    \/ HeapAppendCall
    \/ HeapConcatCall

SpecArrays == InitArrays /\ [][NextArrays]_vars

Done(name) == pc = "done" /\ op = name

Last(q) == q[Len(q)]

\* ----------------------------------------------------------------- C1
\* C1: for every proper list L, MakeList(ListToArray(L)) = L; for every
\* finite sequence A, ListToArray(MakeList(A)) succeeds and returns A; and
\* ListToArray returns NotAList for every value that is not a proper list.
C1_RoundTrip ==
    /\ (Done("ListToArray") /\ IsList(args[1])) =>
            /\ res.err = NoErr
            /\ MakeList(res.val) = args[1]
    /\ (Done("ListToArray") /\ ~IsList(args[1])) =>
            /\ res.err = NotAList
            /\ res.val = <<>>
    /\ Done("list") =>
            /\ res.err = NoErr
            /\ IsList(res.val)
            /\ ListToArray(res.val) = Ret(args, NoErr)

C1_Witness ==
    /\ Done("ListToArray")
    /\ res.err = NoErr
    /\ Len(res.val) = MaxLen
    /\ res.val[1] # res.val[2]

\* ----------------------------------------------------------------- C2
\* the chunk size the caller asked for: 1 without a fourth argument
AskedChunk == IF Len(args) = 3 THEN 1 ELSE args[4].n

FoldsData ==
    /\ Done("foldl")
    /\ Len(args) \in {3, 4}
    /\ args[1].t = "data"
    /\ args[2].t = "fun"
    /\ Len(args) = 4 => (args[4].t = "int" /\ args[4].n >= 1)

RECURSIVE ChunksJoined(_)
ChunksJoined(calls) ==
    IF calls = <<>> THEN <<>> ELSE calls[1][1].d \o ChunksJoined(Tail(calls))

Min(a, b) == IF a < b THEN a ELSE b

\* C2: foldl over a Data buffer D with chunk size k >= 1 (1 by default) hands
\* fn the consecutive chunks of D in order, each of k bytes except a shorter
\* last one and none empty; a fold that runs to the end has made
\* ceil(len(D)/k) calls and its chunks concatenated are D.
C2_DataChunks ==
    FoldsData =>
        LET D == args[1].d
            k == AskedChunk
            c == res.calls
        IN /\ \A j \in 1..Len(c) :
                /\ c[j][1].t = "data"
                /\ c[j][1].d = SubSeq(D, (j - 1) * k + 1, Min(j * k, Len(D)))
                /\ Len(c[j][1].d) >= 1
           /\ res.err = NoErr =>
                /\ Len(c) = (Len(D) + k - 1) \div k
                /\ ChunksJoined(c) = D

C2_Witness ==
    /\ FoldsData
    /\ res.err = NoErr
    /\ Len(args) = 4
    /\ AskedChunk = 3
    /\ Len(args[1].d) = 4
    /\ args[1].d[3] # args[1].d[4]
    /\ Len(res.calls) = 2

\* ----------------------------------------------------------------- C3
\* C3 (as claimed): when an apply of fn fails during foldl, foldl returns the
\* error together with the accumulator built from the elements before the
\* failing call, that is the accumulator that call was given.
C3_AccumulatorAtFailure ==
    (Done("foldl") /\ res.calls # <<>> /\ res.err # NoErr) =>
        res.val = Last(res.calls)[2]

\* ----------------------------------------------------------------- C4
FoldsSequence ==
    /\ Done("foldl")
    /\ Len(args) = 3
    /\ args[2].t = "fun"
    /\ args[1].t = "array" \/ IsList(args[1])

SeqElems(q) == IF q.t = "array" THEN q.a ELSE ListToArray(q).val

\* C4 (as claimed): foldl over an Array or proper list x1..xn calls fn in
\* element order as fn(xi, acc), the accumulator second; when no call fails
\* it makes n calls and returns the last call's value, and for an empty
\* sequence it returns initial without calling fn.
C4_FoldlOrder ==
    FoldsSequence =>
        LET xs == SeqElems(args[1])
            c == res.calls
        IN /\ Len(c) <= Len(xs)
           /\ \A j \in 1..Len(c) :
                /\ c[j][1] = xs[j]
                /\ c[j][2] = IF j = 1 THEN args[3] ELSE Apply(args[2], c[j - 1]).val
           /\ (res.err = NoErr /\ xs # <<>>) =>
                /\ Len(c) = Len(xs)
                /\ res.val = Apply(args[2], Last(c)).val
           /\ xs = <<>> => res = Ret(args[3], NoErr)

\* ----------------------------------------------------------------- C5
MapsArray ==
    /\ Done("map")
    /\ Len(args) = 2
    /\ args[1].t = "fun"
    /\ args[2].t = "array"

\* C5: map over an Array A calls fn once per element in index order on
\* [A[i]]; when every call succeeds the result is an Array as long as A
\* holding the call results; when the call for element i fails no later
\* element is visited and that error is returned.
C5_MapArray ==
    MapsArray =>
        LET xs == args[2].a
            c == res.calls
        IN /\ Len(c) <= Len(xs)
           /\ \A j \in 1..Len(c) : c[j] = <<xs[j]>>
           /\ \A j \in 1..(Len(c) - 1) : Apply(args[1], c[j]).err = NoErr
           /\ res.err = NoErr =>
                /\ Len(c) = Len(xs)
                /\ res.val.t = "array"
                /\ Len(res.val.a) = Len(xs)
                /\ \A j \in 1..Len(xs) : res.val.a[j] = Apply(args[1], <<xs[j]>>).val
           /\ res.err \notin {NoErr, Panic} =>
                /\ c # <<>>
                /\ Apply(args[1], Last(c)).err = res.err

C5_Witness ==
    /\ MapsArray
    /\ res.err = NoErr
    /\ Len(args[2].a) = MaxLen
    /\ args[2].a[1] # args[2].a[2]
    /\ res.val.a[2] # res.val.a[3]
    /\ res.val.a # args[2].a

\* ----------------------------------------------------------------- C6
MapsChain ==
    /\ Done("map")
    /\ Len(args) = 2
    /\ args[1].t = "fun"
    /\ args[2].t = "pair" \/ args[2] = NullV

\* the heads of a Pair chain, in order
RECURSIVE Heads(_)
Heads(expr) == IF expr.t = "pair" THEN <<expr.head>> \o Heads(expr.tail) ELSE <<>>

\* C6 (as claimed): map over a proper list L whose calls all succeed returns
\* a proper list as long as L whose i-th head is apply(fn, [i-th head of
\* L]); map over a Pair chain that does not end in Null signals NotAList
\* and returns Null.
C6_MapList ==
    (MapsChain /\ \A j \in 1..Len(Heads(args[2])) :
                        Apply(args[1], <<Heads(args[2])[j]>>).err = NoErr) =>
        LET hs == Heads(args[2])
        IN IF IsList(args[2])
           THEN /\ res.err = NoErr
                /\ IsList(res.val)
                /\ Len(Heads(res.val)) = Len(hs)
                /\ \A j \in 1..Len(hs) :
                        Heads(res.val)[j] = Apply(args[1], <<hs[j]>>).val
           ELSE /\ res.err = NotAList
                /\ res.val = NullV

\* ----------------------------------------------------------------- C7
SlicesSequence ==
    /\ Done("slice")
    /\ Len(args) = 3
    /\ args[1].t \in {"array", "str", "data"}
    /\ args[2].t = "int"
    /\ args[3].t = "int"

Contents(v) ==
    CASE v.t = "array" -> v.a
      [] v.t = "str" -> v.s
      [] v.t = "data" -> v.d
      [] OTHER -> <<>>

\* C7 (as claimed): slice(seq, start, end) returns an error value (it
\* neither succeeds nor aborts) whenever start < 0, end > len(seq) or
\* start > end, and otherwise returns the elements start..end-1 of seq.
C7_SliceBounds ==
    SlicesSequence =>
        LET q == Contents(args[1])
            start == args[2].n
            end == args[3].n
        IN IF start < 0 \/ end > Len(q) \/ start > end
           THEN res.err \notin {NoErr, Panic}
           ELSE /\ res.err = NoErr
                /\ res.val.t = args[1].t
                /\ Contents(res.val) = SubSeq(q, start + 1, end)

\* ----------------------------------------------------------------- C8
RestOperands == Tail(args)

\* C8 (as claimed): ?append skips every empty rest operand and holds the
\* first operand's own elements exactly once, so that with only empty rest
\* operands the result has the contents of the first operand (stated for
\* an Array or Data first operand); and
\* ?append(array[], Null, array[1], "", array[2]) yields array[1,2].
C8_CoalescingAppend ==
    (Done("?append") /\ Len(args) >= 2 /\ args[1].t \in {"array", "data"}) =>
        /\ (\A j \in 1..Len(RestOperands) : IsEmpty(RestOperands[j])) =>
                /\ res.err = NoErr
                /\ res.val.t = args[1].t
                /\ Contents(res.val) = Contents(args[1])
        /\ args = <<ArrV(<<>>), NullV, ArrV(<<IntV(1)>>), StrV(<<>>), ArrV(<<IntV(2)>>)>> =>
                /\ res.err = NoErr
                /\ res.val.t = "array"
                /\ res.val.a = <<IntV(1), IntV(2)>>

\* ----------------------------------------------------------------- C9
ContainerKinds == {"array", "str", "pair", "data"}

ListOrContents(v) == IF v.t = "pair" THEN Heads(v) ELSE Contents(v)

RECURSIVE Joined(_)
Joined(vs) == IF vs = <<>> THEN <<>> ELSE ListOrContents(vs[1]) \o Joined(Tail(vs))

\* C9 (as claimed): concat whose first operand is of kind K signals an
\* error and returns no container if some rest operand is not of kind K;
\* when all are of kind K (proper lists, for Pair) the result holds the
\* first operand's contents followed by those of the rest operands in order.
C9_ConcatSameKind ==
    (Done("concat") /\ Len(args) >= 2 /\ args[1].t \in ContainerKinds) =>
        IF \E j \in 2..Len(args) : args[j].t # args[1].t
        THEN /\ res.err \notin {NoErr, Panic}
             /\ res.val.t \notin ContainerKinds
        ELSE (\A j \in 1..Len(args) : args[j].t = "pair" => IsList(args[j])) =>
                /\ res.err = NoErr
                /\ res.val.t = args[1].t
                /\ ListOrContents(res.val) = Joined(args)

\* ---------------------------------------------------------------- C10
AllInts == \A j \in 1..Len(args) : args[j].t = "int"

\* ((a1 op a2) op a3) ... op an, over the operand values
RECURSIVE LeftFold(_, _)
LeftFold(name, ns) ==
    IF Len(ns) = 1 THEN ns[1]
    ELSE LET l == LeftFold(name, SubSeq(ns, 1, Len(ns) - 1))
             r == ns[Len(ns)]
         IN CASE name = "+" -> l + r
              [] name = "-" -> l - r
              [] name = "*" -> l * r
              [] name = "/" -> GoDiv(l, r)
              [] name = "bit-and" -> BitOp("BitAnd", l, r)
              [] name = "bit-or" -> BitOp("BitOr", l, r)
              [] name = "bit-xor" -> BitOp("BitXor", l, r)

\* C10 (as claimed): + - * / with n >= 1 and bit-and, bit-or, bit-xor with
\* n >= 2 integer arguments return the left fold of the operator over all
\* the arguments; below that arity they signal WrongNargs.
C10_ReducingFold ==
    /\ (pc = "done" /\ op \in NumericNames) =>
            IF Len(args) < 1 THEN res.err = WrongNargs
            ELSE (AllInts /\ (op = "/" => \A j \in 2..Len(args) : args[j].n # 0)) =>
                    res = Ret(IntV(LeftFold(op, [j \in 1..Len(args) |-> args[j].n])), NoErr)
    /\ (pc = "done" /\ op \in BitwiseNames) =>
            IF Len(args) < 2 THEN res.err = WrongNargs
            ELSE AllInts =>
                    res = Ret(IntV(LeftFold(op, [j \in 1..Len(args) |-> args[j].n])), NoErr)

\* ---------------------------------------------------------------- C11
\* the k-th byte (from 1) of n as a signed 64-bit little-endian integer,
\* for |n| < 2^31
ByteOf(n, k) ==
    IF k <= 4 THEN (n \div (256 ^ (k - 1))) % 256
    ELSE IF n < 0 THEN 255 ELSE 0

\* the encoding of a value built from Int, Bool, Str, Data and Array
RECURSIVE Encoding(_)
RECURSIVE EncodingAll(_)
EncodingAll(vs) ==
    IF vs = <<>> THEN <<>> ELSE Encoding(vs[1]) \o EncodingAll(Tail(vs))

\* d + c, the bytes d being least significant first
RECURSIVE AddCarry(_, _, _)
AddCarry(d, k, c) ==
    IF k > Len(d) THEN <<>>
    ELSE <<(d[k] + c) % 256>> \o AddCarry(d, k + 1, (d[k] + c) \div 256)

\* the 8 bytes of an Int beyond 32 bits: those of its magnitude, and if it
\* is negative each complemented and one added to the whole
WideBytes(v) ==
    LET mag == [k \in 1..8 |->
                  BitsNat([j \in 1..8 |->
                              IF 8 * (k - 1) + j <= Len(v.bits)
                              THEN v.bits[8 * (k - 1) + j] ELSE 0], 1)]
    IN IF v.neg THEN AddCarry([k \in 1..8 |-> 255 - mag[k]], 1, 1)
       ELSE SubSeq(mag, 1, 8)

Encoding(v) ==
    CASE v.t = "int" ->
            IF IsWide(v) THEN WideBytes(v) ELSE [k \in 1..8 |-> ByteOf(v.n, k)]
      [] v.t = "bool" -> IF v.b THEN <<1>> ELSE <<0>>
      [] v.t = "str" -> v.s
      [] v.t = "data" -> v.d
      [] v.t = "array" -> EncodingAll(v.a)

RECURSIVE Encodable(_)
Encodable(v) ==
    \/ v.t \in {"int", "bool", "str", "data"}
    \/ v.t = "array" /\ \A k \in 1..Len(v.a) : Encodable(v.a[k])

\* C11: make-data of arguments built from Int, Bool, Str, Data and Array
\* returns one Data buffer holding the encodings of the arguments in order
\* (Int as 8 little-endian two's complement bytes, Bool as one byte, Str and
\* Data raw, Array as its elements' encodings, untagged), hence the same
\* bytes as make-data of the one Array holding the arguments.
C11_MakeDataEncoding ==
    (Done("make-data") /\ \A j \in 1..Len(args) : Encodable(args[j])) =>
        /\ res.err = NoErr
        /\ res.val.t = "data"
        /\ res.val.d = EncodingAll(args)
        /\ MakeDataFunction("make-data", <<ArrV(args)>>) = res

C11_Witness ==
    /\ Done("make-data")
    /\ Len(args) = 2
    /\ args[1] = IntV(-2)
    /\ args[2].t = "array"
    /\ Len(args[2].a) = 2
    /\ res.err = NoErr
    /\ Len(res.val.d) > 16

\* ---------------------------------------------------------------- C12
\* C12 (as claimed): make-data of a proper list of serializable scalars (a
\* Pair chain ending in Null) succeeds with the bytes of the Array holding
\* the same elements.
C12_ListLikeArray ==
    (Done("make-data") /\ Len(args) = 1 /\ args[1].t = "pair" /\ IsList(args[1])
        /\ \A k \in 1..Len(Heads(args[1])) : Heads(args[1])[k] \in CodecScalars) =>
        /\ res.err = NoErr
        /\ res.val.t = "data"
        /\ res.val.d = EncodingAll(Heads(args[1]))

\* ---------------------------------------------------------------- C13
\* a Function, Symbol or Null, at any depth inside Arrays and Pairs
RECURSIVE HoldsUnsupported(_)
HoldsUnsupported(v) ==
    \/ v.t \in {"fun", "symbol", "hash", "null"}
    \/ v.t = "array" /\ \E k \in 1..Len(v.a) : HoldsUnsupported(v.a[k])
    \/ v.t = "pair" /\ (HoldsUnsupported(v.head) \/ HoldsUnsupported(v.tail))

\* C13: make-data returns an error and Null, never a Data value, whenever
\* some argument is or holds at any depth a Function, Symbol or Null,
\* whatever the arguments before it.
C13_UnsupportedType ==
    (Done("make-data") /\ \E j \in 1..Len(args) : HoldsUnsupported(args[j])) =>
        /\ res.err \notin {NoErr, Panic}
        /\ res.val = NullV

C13_Witness ==
    /\ Done("make-data")
    /\ Len(args) = 2
    /\ Encodable(args[1])
    /\ args[1].t = "int"
    /\ args[2].t = "array"
    /\ HoldsUnsupported(args[2])
    /\ res.err # NoErr

\* ---------------------------------------------------------------- C14
\* C14: cvert-int64 of the Data that make-data wrote for one Int x holds 8
\* bytes and returns the one-element Array [x], for x of either sign,
\* within 32 bits and beyond, up to the largest and down to the smallest
\* int64.
C14_Int64RoundTrip ==
    \A x \in CodecIntValues :
        (Done("cvert-int64")
            /\ args = <<MakeDataFunction("make-data", <<x>>).val>>) =>
            /\ Len(args[1].d) = 8
            /\ res.err = NoErr
            /\ res.val = ArrV(<<x>>)

\* the smallest int64, -2^63
C14_Witness ==
    /\ Done("cvert-int64")
    /\ args = <<MakeDataFunction("make-data", <<IntW(TRUE, Shl(<<1>>, 63))>>).val>>
    /\ args[1].d = <<0, 0, 0, 0, 0, 0, 0, 128>>
    /\ res.val = ArrV(<<IntW(TRUE, Shl(<<1>>, 63))>>)

\* the largest int64, 2^63 - 1
C14_WitnessMax ==
    /\ Done("cvert-int64")
    /\ args = <<MakeDataFunction("make-data", <<IntW(FALSE, [j \in 1..63 |-> 1])>>).val>>
    /\ args[1].d = <<255, 255, 255, 255, 255, 255, 255, 127>>
    /\ res.val = ArrV(<<IntW(FALSE, [j \in 1..63 |-> 1])>>)

\* -0x0102030405060708, whose 8 bytes all differ
C14_WitnessBytes ==
    /\ Done("cvert-int64")
    /\ Len(args) = 1
    /\ res.err = NoErr
    /\ args[1].t = "data"
    /\ args[1].d = <<248, 248, 249, 250, 251, 252, 253, 254>>
    /\ res.val.t = "array"
    /\ res.val.a[1] \in WideInts
    /\ res.val.a[1].neg
    /\ args = <<MakeDataFunction("make-data", <<res.val.a[1]>>).val>>

\* within 32 bits
C14_WitnessNarrow ==
    /\ Done("cvert-int64")
    /\ args = <<MakeDataFunction("make-data", <<IntV(-1000000007)>>).val>>
    /\ res.val = ArrV(<<IntV(-1000000007)>>)

\* ---------------------------------------------------------------- C15
NumericConversions == ConvertNames \ {"cvert-str"}
IntegerConversions == {"cvert-int64", "cvert-int32"}

\* the value the conversion `name` is to give for an Int, Float or Bool
Coerced(name, v) ==
    IF name \in IntegerConversions
    THEN CASE v.t = "int" -> v
           [] v.t = "float" -> IntV(FloatToInt(v.bits))
           [] v.t = "bool" -> IntV(IF v.b THEN 1 ELSE 0)
    ELSE CASE v.t = "int" -> FloatB(IntToFloat(v.n))
           [] v.t = "float" -> v
           [] v.t = "bool" -> FloatB(IntToFloat(IF v.b THEN 1 ELSE 0))

\* C15 (as claimed): a numeric conversion given only Int, Float and Bool
\* arguments returns the Array of the coerced values, one per argument in
\* order.
C15_NumericCoercion ==
    (/\ pc = "done"
     /\ op \in NumericConversions
     /\ Len(args) >= 1
     /\ \A j \in 1..Len(args) : args[j].t \in {"int", "float", "bool"}) =>
        /\ res.err = NoErr
        /\ res.val = ArrV([j \in 1..Len(args) |-> Coerced(op, args[j])])

\* ---------------------------------------------------------------- C16
\* the position of the first argument of an unsupported variant (0 if none)
FirstUnconvertible(as) ==
    IF \E j \in 1..Len(as) : as[j] \in Unconvertible
    THEN CHOOSE j \in 1..Len(as) :
            /\ as[j] \in Unconvertible
            /\ \A i \in 1..(j - 1) : as[i] \notin Unconvertible
    ELSE 0

\* a variant the conversion `name` has a case for that cannot fail
Accepted(name, v) ==
    \/ v.t = "bool"
    \/ name \in IntegerConversions /\ v.t = "float"
    \/ name \in NumericConversions \ IntegerConversions /\ v.t = "int"

\* C16 (as claimed): every conversion, cvert-str included, given an argument
\* of an unsupported variant returns an error and no converted result.
C16_EveryConversionRejects ==
    (pc = "done" /\ op \in ConvertNames /\ FirstUnconvertible(args) > 0) =>
        /\ res.err # NoErr
        /\ res.val = NullV

\* C16 (amended): a numeric conversion that reaches an argument of an
\* unsupported variant (Function, Hash, Symbol, Null) after arguments it
\* converts returns Null and the unsupported-conversion error carrying the
\* zero-based index of that argument; cvert-str has no unsupported variant
\* and returns a Str without error.
C16_UnsupportedIndex ==
    (pc = "done" /\ op \in ConvertNames /\ FirstUnconvertible(args) > 0) =>
        IF op = "cvert-str"
        THEN res.err = NoErr /\ res.val.t = "str"
        ELSE (\A i \in 1..(FirstUnconvertible(args) - 1) : Accepted(op, args[i])) =>
                /\ res.err = Unimplemented
                /\ res.arg = FirstUnconvertible(args) - 1
                /\ res.val = NullV

C16_Witness ==
    /\ pc = "done"
    /\ op = "cvert-float32"
    /\ Len(args) = 2
    /\ args[1].t = "int"
    /\ args[2] = FunV("cons")
    /\ res.arg = 1

\* ---------------------------------------------------------------- C17
\* C17: a call of eval leaves the calling engine's pc, value stack and
\* call-frame stack as they were, whether it returns a value, a compile
\* failure or a run-time error; the expression runs from pc 0 on an engine
\* with stacks of its own.
C17_EvalOnDuplicate ==
    [][(pc = "call" /\ op = "eval") =>
        /\ env'.pc = env.pc
        /\ env'.datastack = env.datastack
        /\ env'.addrstack = env.addrstack
        /\ (Len(args) = 1 /\ res'.err # CompileFailure) =>
              res' = [val |-> Run(Engine(0, <<>>, <<>>, newenv'.code)).val,
                      err |-> Run(Engine(0, <<>>, <<>>, newenv'.code)).err,
                      calls |-> <<>>]]_vars

C17_Witness ==
    /\ Done("eval")
    /\ env.pc > 0
    /\ env.datastack # <<>>
    /\ env.addrstack # <<>>
    /\ res.err = UndefinedSymbol
    /\ newenv.pc > 0
    /\ newenv.datastack # <<>>

\* ---------------------------------------------------------------- C18
\* the operations that apply a callback, and the callback of a call
AppliesCallback == {"map", "foldl", "apply", "fs-walk", "fs-read-file-s"}

CallbackOf(name, as) ==
    IF name \in {"foldl", "fs-read-file-s"} THEN as[2] ELSE as[1]

\* C18: when an application of the callback made by map, foldl, apply,
\* fs-walk or fs-read-file-s fails, the operation makes no further
\* application and returns the error that application returned.
C18_CallbackErrorReturned ==
    (pc = "done" /\ op \in AppliesCallback) =>
        \A k \in 1..Len(res.calls) :
            Apply(CallbackOf(op, args), res.calls[k]).err # NoErr =>
                /\ k = Len(res.calls)
                /\ res.err = Apply(CallbackOf(op, args), res.calls[k]).err

\* a callback failed after a callback succeeded
FailedAfterSuccess(name) ==
    /\ Done(name)
    /\ Len(res.calls) >= 2
    /\ res.err = Apply(CallbackOf(op, args), Last(res.calls)).err
    /\ res.err \notin {NoErr, Panic}

C18_Witness ==
    /\ FailedAfterSuccess("fs-read-file-s")
    /\ res.err = CallbackFailed

C18_WitnessWalk == FailedAfterSuccess("fs-walk")

C18_WitnessMap == FailedAfterSuccess("map")

C18_WitnessFoldl == FailedAfterSuccess("foldl")

C18_WitnessApply ==
    /\ Done("apply")
    /\ Len(res.calls) = 1
    /\ res.err \notin {NoErr, Panic}

\* ---------------------------------------------------------------- C19
\* C19 (as claimed): first/car, sget, hset! and make-array return a result
\* or an error value for every argument list; none of them aborts the
\* engine.
C19_NeverAborts ==
    (pc = "done" /\ op \in {"first", "car", "sget", "hset!", "make-array"}) =>
        res.err # Panic

\* ---------------------------------------------------------------- C20
\* C20 (as claimed): a call of append, ?append, concat or ?concat on an
\* Array leaves every array held before the call with the same elements at
\* the same indices, whether or not the first operand shares its backing
\* store with it.
C20_ArraysKeepContents ==
    [][op' \in AppendNames \cup ConcatNames =>
        \A i \in 1..Len(arrs) :
            arrs[i].t = "array" => View(store', arrs[i]) = View(store, arrs[i])]_vars

\* ---------------------------------------------------------------- C21
\* the offset and the window length a call of fs-read-file-s was given
StreamOffset == IF Len(args) > 3 THEN args[4].n ELSE 0
StreamMax == IF Len(args) > 4 THEN args[5].n ELSE 0

\* the bytes of the file a call of fs-read-file-s names
StreamContent == Stat(fsys, args[1].s).entry.content

\* the file position just past the window [offset, offset+max): the end of
\* the file when max is 0 or the window exceeds the file
WindowEnd ==
    IF StreamMax = 0 \/ StreamOffset + StreamMax > Len(StreamContent)
    THEN Len(StreamContent)
    ELSE StreamOffset + StreamMax

\* a returned call of fs-read-file-s on an existing file with a chunk size
\* of at least 1 and a valid offset, whose callback did not fail
Streams ==
    /\ pc = "done"
    /\ op = "fs-read-file-s"
    /\ Len(args) >= 3
    /\ args[1].t = "str"
    /\ args[2].t = "fun"
    /\ \A j \in 3..Len(args) : args[j].t = "int"
    /\ args[3].n >= 1
    /\ StreamOffset >= 0
    /\ Stat(fsys, args[1].s).err = NoErr
    /\ ~Stat(fsys, args[1].s).entry.isdir
    /\ res.err = NoErr

\* the number of bytes handed to the callback in the first k applications
RECURSIVE Delivered(_)
Delivered(k) ==
    IF k = 0 THEN 0 ELSE Delivered(k - 1) + Len(res.calls[k][2].d)

\* the k-th application made the callback answer true
Stopped(k) == Apply(args[2], res.calls[k]).val = BoolV(TRUE)

\* the applications are made on consecutive non-empty pieces of the file
\* from the offset on, each with the position of its first byte
ConsecutiveChunks ==
    \A k \in 1..Len(res.calls) :
        LET p == StreamOffset + Delivered(k - 1)
            d == res.calls[k][2].d
        IN /\ res.calls[k][1] = IntV(p)
           /\ Len(d) >= 1
           /\ p + Len(d) <= Len(StreamContent)
           /\ d = SubSeq(StreamContent, p + 1, p + Len(d))

\* no byte outside the window is delivered
InsideWindow ==
    \/ Delivered(Len(res.calls)) = 0
    \/ StreamOffset + Delivered(Len(res.calls)) <= WindowEnd

\* the applications go on until one answers true or the window is used up
StopsOnTrueOrEnd ==
    /\ \A k \in 1..(Len(res.calls) - 1) : ~Stopped(k)
    /\ (Len(res.calls) = 0 \/ ~Stopped(Len(res.calls)))
          => StreamOffset + Delivered(Len(res.calls)) >= WindowEnd

\* the result is the number of bytes delivered
CountsDelivered == res.val = IntV(Delivered(Len(res.calls)))

\* C21 (as claimed): fs-read-file-s with chunk >= 1 applies fn to
\* consecutive chunks of the file from the offset on, each with the file
\* position of its first byte, delivers only bytes of the window
\* [offset, offset+max) (the rest of the file when max is 0 or too large),
\* stops when fn answers true or the window is exhausted, and returns the
\* number of bytes it delivered.
C21_StreamWindow ==
    Streams =>
        /\ ConsecutiveChunks
        /\ InsideWindow
        /\ StopsOnTrueOrEnd
        /\ CountsDelivered

\* ---------------------------------------------------------------- C22
\* a finished call of fs-walk with a function, from a working directory
\* that could be determined
Walked ==
    /\ pc = "done"
    /\ op = "fs-walk"
    /\ Len(args) = 1
    /\ args[1].t = "fun"
    /\ CwdKnown(fsys)

\* the outcome of applying the callback to the k-th entry handed to it
WalkApply(k) == Apply(args[1], res.calls[k])

\* the walk came to an entry it could not stat
TraversalFailed == \E k \in 1..Len(WalkVisits(fsys)) : ~WalkVisits(fsys)[k].info

\* the callback is applied to the entries in walk order, once each
InWalkOrder ==
    /\ Len(res.calls) <= Len(WalkVisits(fsys))
    /\ \A k \in 1..Len(res.calls) : res.calls[k] = <<FileInfoHash(WalkVisits(fsys)[k])>>

\* an answer of true ends the walk, and the call then returns true with
\* no error
TrueEndsWalk ==
    \A k \in 1..Len(res.calls) :
        (WalkApply(k).err = NoErr /\ WalkApply(k).val = BoolV(TRUE))
            => /\ k = Len(res.calls)
               /\ res.val = BoolV(TRUE)
               /\ res.err = NoErr

\* an error is returned only for a failed application or a failed
\* traversal, together with false
ErrorOnlyOnFailure ==
    res.err # NoErr =>
        /\ res.val = BoolV(FALSE)
        /\ \/ Len(res.calls) > 0 /\ WalkApply(Len(res.calls)).err = res.err
           \/ TraversalFailed

\* a walk that nothing ended reaches every entry
WalksAll ==
    (res.err = NoErr /\ \A k \in 1..Len(res.calls) : WalkApply(k).val # BoolV(TRUE))
        => Len(res.calls) = Len(WalkVisits(fsys))

\* C22 (as claimed): fs-walk applies fn once to each visited entry in walk
\* order; when fn answers true for an entry no further entry is visited
\* and fs-walk returns true with no error; fs-walk returns an error only
\* when an application of fn failed or the traversal itself failed, and
\* then it returns false with that error.
C22_WalkOutcome ==
    Walked =>
        /\ InWalkOrder
        /\ TrueEndsWalk
        /\ ErrorOnlyOnFailure
        /\ WalksAll
====
